---- MODULE Spec2Model ----
(***************************************************************************)
(* Pose-scoring engine of the yoga coach: YogaPoseAnalyzer                 *)
(* (shared/yoga_pose_analyzer.py), the dependency-free DTW                 *)
(* (shared/dtw_simple.py) and the training and testing Lambda handlers     *)
(* with the S3 object they share (shared/s3_handler.py).                   *)
(*                                                                         *)
(* Numbers.  Angles are degrees.  Python computes with floats; the model   *)
(* computes with exact rationals <<num, den>> (den > 0, lowest terms), so  *)
(* that means, scores and weighted sums are the values the formulas        *)
(* denote.  None is the empty tuple <<>>.                                  *)
(***************************************************************************)
EXTENDS Integers, Sequences, FiniteSets, TLC

VARIABLES
    pose_name,        \* YogaPoseAnalyzer.pose_name (selects angle_config)
    angle_data,       \* training handler: per-frame angle dicts collected so far
    golden_standard,  \* result of create_golden_standard, [kind |-> "none"] before
    test_angles,      \* testing handler: per-frame angle dicts collected so far
    golden_arg,       \* the golden-standard document handed to evaluate_angles
    fastdtw_ok,       \* whether the fastdtw/scipy call of evaluate_with_dtw succeeds
    evaluation,       \* result of evaluate_angles, [kind |-> "none"] before
    evaluation_again, \* result of a second call with the same arguments
    landmarks,        \* the FrameLandmarkSet handed to calculate_angles
    angles,           \* result of calculate_angles, [kind |-> "none"] before
    dtw_seq1,         \* first argument of the DTW functions
    dtw_seq2,         \* second argument of the DTW functions
    dtw_result,       \* what the DTW functions return for (dtw_seq1, dtw_seq2)
    fb_evaluation,    \* the evaluation dict handed to generate_feedback
    pass_threshold,   \* the pass_threshold argument of generate_feedback
    feedback,         \* result of generate_feedback, [kind |-> "none"] before
    s3_golden,        \* S3: the object <pose>/training/golden-standard.json per pose
    runs,             \* the handler invocations in flight: locals and position of each
    bedrock,          \* _invoke_bedrock_with_retry: arguments, locals and position
    validation        \* validate_video_with_bedrock: arguments, locals and position

vars == <<pose_name, angle_data, golden_standard, test_angles, golden_arg,
          fastdtw_ok, evaluation, evaluation_again, landmarks, angles, dtw_seq1, dtw_seq2, dtw_result,
          fb_evaluation, pass_threshold, feedback, s3_golden, runs, bedrock, validation>>

evalVars == <<angle_data, golden_standard, test_angles, golden_arg,
              fastdtw_ok, evaluation, evaluation_again>>

angleVars == <<landmarks, angles>>

dtwVars == <<dtw_seq1, dtw_seq2, dtw_result>>

feedbackVars == <<fb_evaluation, pass_threshold, feedback>>

handlerVars == <<s3_golden, runs>>

validationVars == <<bedrock, validation>>

None == <<>>

(***************************************************************************)
(* Bounds of the model.                                                    *)
(***************************************************************************)
MaxGoldenFrames == 3
MaxTestFrames == 3
MaxSeqLen == 4

(***************************************************************************)
(* Exact rational arithmetic standing for Python float arithmetic.         *)
(***************************************************************************)
RECURSIVE GCD(_, _)
GCD(a, b) == IF b = 0 THEN a ELSE GCD(b, a % b)

Abs(n) == IF n < 0 THEN -n ELSE n

\* n/d in lowest terms with a positive denominator (d # 0)
R(n, d) ==
    LET s == IF d < 0 THEN -1 ELSE 1
        g == GCD(Abs(n), Abs(d))
    IN  <<(s * n) \div g, (s * d) \div g>>

RInt(n) == <<n, 1>>
RAdd(a, b) == R(a[1] * b[2] + b[1] * a[2], a[2] * b[2])
RSub(a, b) == R(a[1] * b[2] - b[1] * a[2], a[2] * b[2])
RMul(a, b) == R(a[1] * b[1], a[2] * b[2])
RDiv(a, b) == R(a[1] * b[2], a[2] * b[1])
RLe(a, b) == a[1] * b[2] <= b[1] * a[2]
RLt(a, b) == a[1] * b[2] < b[1] * a[2]
RGe(a, b) == RLe(b, a)
RGt(a, b) == RLt(b, a)
RAbs(a) == <<Abs(a[1]), a[2]>>
RMax(a, b) == IF RGt(b, a) THEN b ELSE a      \* Python max(a, b)
RMin(a, b) == IF RLt(b, a) THEN b ELSE a
RZero == RInt(0)

RECURSIVE SumSeq(_)
SumSeq(s) == IF s = <<>> THEN 0 ELSE Head(s) + SumSeq(Tail(s))

\* np.mean of a non-empty list of (integer-degree) values
Mean(values) == R(SumSeq(values), Len(values))

RECURSIVE MinSeq(_)
MinSeq(s) ==
    IF Len(s) = 1 THEN s[1]
    ELSE LET m == MinSeq(Tail(s)) IN IF s[1] < m THEN s[1] ELSE m

RECURSIVE MaxSeq(_)
MaxSeq(s) ==
    IF Len(s) = 1 THEN s[1]
    ELSE LET m == MaxSeq(Tail(s)) IN IF s[1] > m THEN s[1] ELSE m

\* np.std(values)**2: population variance (ddof = 0).  The standard deviation
\* itself is irrational in general; the model keeps its square.
Variance(values) ==
    LET n == Len(values)
        s == SumSeq(values)
        sq == SumSeq([i \in 1..n |-> values[i] * values[i]])
    IN  R(n * sq - s * s, n * n)

(***************************************************************************)
(* Pose configuration table.                                               *)
(***************************************************************************)
POSE_ANGLE_DEFINITIONS ==
    [p \in {"downward-dog", "warrior-1", "warrior-2", "tree-pose", "triangle-pose"} |->
        CASE p = "downward-dog" ->
               [angles |-> <<"left_shoulder", "right_shoulder", "left_hip", "right_hip",
                             "left_knee", "right_knee", "spine_alignment">>,
                tolerances |-> [left_shoulder |-> 15, right_shoulder |-> 15,
                                left_hip |-> 20, right_hip |-> 20,
                                left_knee |-> 10, right_knee |-> 10,
                                spine_alignment |-> 8]]
          [] p = "warrior-1" ->
               [angles |-> <<"left_hip", "right_hip", "left_knee", "right_knee",
                             "left_shoulder", "right_shoulder", "spine_alignment">>,
                tolerances |-> [left_hip |-> 25, right_hip |-> 25,
                                left_knee |-> 15, right_knee |-> 15,
                                left_shoulder |-> 20, right_shoulder |-> 20,
                                spine_alignment |-> 10]]
          [] p = "warrior-2" ->
               [angles |-> <<"left_hip", "right_hip", "left_knee", "right_knee",
                             "left_shoulder", "right_shoulder", "left_elbow", "right_elbow">>,
                tolerances |-> [left_hip |-> 25, right_hip |-> 25,
                                left_knee |-> 15, right_knee |-> 15,
                                left_shoulder |-> 20, right_shoulder |-> 20,
                                left_elbow |-> 10, right_elbow |-> 10]]
          [] p = "tree-pose" ->
               [angles |-> <<"left_hip", "right_hip", "left_knee", "right_knee",
                             "left_shoulder", "right_shoulder", "spine_alignment">>,
                tolerances |-> [left_hip |-> 20, right_hip |-> 20,
                                left_knee |-> 25, right_knee |-> 25,
                                left_shoulder |-> 15, right_shoulder |-> 15,
                                spine_alignment |-> 12]]
          [] p = "triangle-pose" ->
               [angles |-> <<"left_hip", "right_hip", "left_knee", "right_knee",
                             "left_shoulder", "right_shoulder", "spine_alignment">>,
                tolerances |-> [left_hip |-> 20, right_hip |-> 20,
                                left_knee |-> 10, right_knee |-> 10,
                                left_shoulder |-> 25, right_shoulder |-> 25,
                                spine_alignment |-> 15]]]

\* self.angle_config, set by __init__ from pose_name
angle_config(pose) == POSE_ANGLE_DEFINITIONS[pose]

\* the configured angle names as a set
ConfiguredAngles(pose) ==
    {angle_config(pose).angles[i] : i \in 1..Len(angle_config(pose).angles)}

(***************************************************************************)
(* dtw_simple.py: the hand-rolled DTW.  A cell of the cost matrix is       *)
(* either +infinity or a finite number.                                    *)
(***************************************************************************)
Infinity == [inf |-> TRUE, v |-> 0]
Fin(x) == [inf |-> FALSE, v |-> x]

\* Python min(a, b) on floats that may be inf
CellMin(a, b) ==
    IF a.inf THEN b
    ELSE IF b.inf THEN a
    ELSE IF b.v < a.v THEN b ELSE a

\* mutant of CellMin3: the match cell dtw_matrix[i-1, j-1] is left out
CellMin3NoMatch(a, b, c) == CellMin(a, b)

\* mutant of CellMin3: the insertion cell dtw_matrix[i-1, j] is left out
CellMin3NoInsertion(a, b, c) == CellMin(b, c)

\* min(insertion, deletion, match) of dtw_distance, lines 34-38
CellMin3(a, b, c) == CellMin(CellMin(a, b), c)

\* cost + cell
CellAdd(cost, c) == IF c.inf THEN Infinity ELSE Fin(cost + c.v)

\* row 0 of np.full((n + 1, m + 1), np.inf) with dtw_matrix[0, 0] = 0;
\* position j + 1 of the tuple is column j
DtwRow0(m) == [k \in 1..(m + 1) |-> IF k = 1 THEN Fin(0) ELSE Infinity]

\* the inner loop "for j in range(1, m + 1)" of row i: row holds columns
\* 0 .. Len(row) - 1 of the new row, prev is row i - 1, x is seq1[i-1]
RECURSIVE DtwFillRow(_, _, _, _)
DtwFillRow(prev, x, seq2, row) ==
    IF Len(row) = Len(seq2) + 1 THEN row
    ELSE LET j == Len(row)
             cost == Abs(x - seq2[j])
             cell == CellAdd(cost, CellMin3(prev[j + 1],    \* dtw_matrix[i-1, j]
                                            row[j],         \* dtw_matrix[i, j-1]
                                            prev[j]))       \* dtw_matrix[i-1, j-1]
         IN  DtwFillRow(prev, x, seq2, Append(row, cell))

\* the outer loop "for i in range(1, n + 1)": returns row n
RECURSIVE DtwRows(_, _, _, _)
DtwRows(seq1, seq2, i, prev) ==
    IF i > Len(seq1) THEN prev
    ELSE DtwRows(seq1, seq2, i + 1, DtwFillRow(prev, seq1[i], seq2, <<Infinity>>))

\* dtw_distance(seq1, seq2) = dtw_matrix[n, m], a cell
dtw_distance(seq1, seq2) ==
    DtwRows(seq1, seq2, 1, DtwRow0(Len(seq2)))[Len(seq2) + 1]

\* normalized_dtw_distance: distance / (len(seq1) + len(seq2)), a cell whose
\* finite value is a rational
normalized_dtw_distance(seq1, seq2) ==
    LET distance == dtw_distance(seq1, seq2)
        path_length == Len(seq1) + Len(seq2)
    IN  IF path_length > 0
        THEN (IF distance.inf THEN Infinity ELSE Fin(R(distance.v, path_length)))
        ELSE Fin(RZero)

\* mutant of dtw_score: the score is not clamped at 0
dtw_score_unclamped(seq1, seq2, max_angle_diff) ==
    IF seq1 = <<>> \/ seq2 = <<>> THEN RZero
    ELSE LET norm_distance == normalized_dtw_distance(seq1, seq2)
         IN  IF norm_distance.inf THEN RZero
             ELSE RSub(RInt(100),
                       RMul(RDiv(norm_distance.v, RInt(max_angle_diff)), RInt(100)))

\* dtw_score(seq1, seq2, max_angle_diff)
dtw_score(seq1, seq2, max_angle_diff) ==
    IF seq1 = <<>> \/ seq2 = <<>> THEN RZero
    ELSE LET norm_distance == normalized_dtw_distance(seq1, seq2)
         IN  IF norm_distance.inf THEN RZero
             ELSE RMax(RZero,
                       RSub(RInt(100),
                            RMul(RDiv(norm_distance.v, RInt(max_angle_diff)), RInt(100))))

(***************************************************************************)
(* The external fastdtw(x, y, dist=euclidean) that evaluate_with_dtw       *)
(* calls (radius 1).  It returns the cost of a warping path found in a     *)
(* window around the projection of a coarser solution; for sequences of    *)
(* at most 5 values the window is the whole matrix and the result is the     *)
(* exact DTW distance with cost |x_i - y_j|.                               *)
(***************************************************************************)
fastdtw(x, y) == dtw_distance(x, y).v

(***************************************************************************)
(* Angle sequences.  A frame (FrameAngles) is a function from the angle    *)
(* names it holds to integer degrees.                                      *)
(***************************************************************************)
\* [frame[angle_name] for frame in frames if angle_name in frame]
RECURSIVE ValuesOf(_, _)
ValuesOf(frames, angle_name) ==
    IF frames = <<>> THEN <<>>
    ELSE LET rest == ValuesOf(Tail(frames), angle_name)
         IN  IF angle_name \in DOMAIN Head(frames)
             THEN <<Head(frames)[angle_name]>> \o rest
             ELSE rest

\* all_angle_names of create_golden_standard
AllAngleNames(frames) == UNION {DOMAIN frames[i] : i \in 1..Len(frames)}

RECURSIVE RSumOver(_, _)
RSumOver(S, f) ==
    IF S = {} THEN RZero
    ELSE LET x == CHOOSE y \in S : TRUE
         IN  RAdd(f[x], RSumOver(S \ {x}, f))

(***************************************************************************)
(* YogaPoseAnalyzer.create_golden_standard                                 *)
(***************************************************************************)
\* mutant of AngleAggregate: confidence is taken over the frames that hold
\* the angle
AngleAggregateOverPresent(frames, angle_name) ==
    LET values == ValuesOf(frames, angle_name)
    IN  [mean |-> Mean(values),
         std_squared |-> Variance(values),
         min |-> MinSeq(values),
         max |-> MaxSeq(values),
         count |-> Len(values),
         confidence |-> R(Len(values), Len(values))]

\* lines 417-436: the statistics of one angle name of all_angle_names
AngleAggregate(frames, angle_name) ==
    LET values == ValuesOf(frames, angle_name)
    IN  [mean |-> Mean(values),
         std_squared |-> Variance(values),
         min |-> MinSeq(values),
         max |-> MaxSeq(values),
         count |-> Len(values),
         confidence |-> R(Len(values), Len(frames))]

\* the frames that hold every angle name of the sequence
RECURSIVE CompleteFrames(_, _)
CompleteFrames(frames, names) ==
    IF frames = <<>> THEN <<>>
    ELSE IF DOMAIN Head(frames) = names
         THEN <<Head(frames)>> \o CompleteFrames(Tail(frames), names)
         ELSE CompleteFrames(Tail(frames), names)

\* mutant of create_golden_standard: frames lacking an angle are dropped from
\* angle_sequences
create_golden_standard_dense(pose, frames) ==
    IF frames = <<>>
    THEN [kind |-> "ValueError"]
    ELSE [kind |-> "ok",
          doc |-> [pose_name |-> pose,
                   total_frames |-> Len(frames),
                   angles |-> [a \in AllAngleNames(frames) |-> AngleAggregate(frames, a)],
                   angle_sequences |-> CompleteFrames(frames, AllAngleNames(frames))]]

\* mutant of create_golden_standard: the empty sequence is not rejected
create_golden_standard_unchecked(pose, frames) ==
    [kind |-> "ok",
     doc |-> [pose_name |-> pose,
              total_frames |-> Len(frames),
              angles |-> [a \in AllAngleNames(frames) |-> AngleAggregate(frames, a)],
              angle_sequences |-> frames]]

\* lines 404-450; created_at, video_source and metadata take no part in scoring
create_golden_standard(pose, frames) ==
    IF frames = <<>>
    THEN [kind |-> "ValueError"]
    ELSE [kind |-> "ok",
          doc |-> [pose_name |-> pose,
                   total_frames |-> Len(frames),
                   angles |-> [a \in AllAngleNames(frames) |-> AngleAggregate(frames, a)],
                   angle_sequences |-> frames]]

(***************************************************************************)
(* YogaPoseAnalyzer.evaluate_with_dtw: the class body defines it twice     *)
(* (lines 452 and 617); the later definition is the one bound to the       *)
(* class.  The first would call dtw_score of dtw_simple.py.                *)
(***************************************************************************)
\* mutant of FastDtwScore: the score is not clamped at 0
FastDtwScoreUnclamped(test_seq, golden_seq) ==
    LET distance == fastdtw(test_seq, golden_seq)
        avg_length == R(Len(test_seq) + Len(golden_seq), 2)
        normalized_distance == RDiv(RInt(distance), avg_length)
    IN  RSub(RInt(100), RMul(RDiv(normalized_distance, RInt(30)), RInt(100)))

\* the body of the try block, lines 663-674
FastDtwScore(test_seq, golden_seq) ==
    LET distance == fastdtw(test_seq, golden_seq)
        avg_length == R(Len(test_seq) + Len(golden_seq), 2)
        normalized_distance == RDiv(RInt(distance), avg_length)
        max_distance == RInt(30)
    IN  RMax(RZero,
             RSub(RInt(100), RMul(RDiv(normalized_distance, max_distance), RInt(100))))

\* mutant of DtwScored: two values are taken to be enough
DtwScoredFromTwo(test_frames, golden_frames, angle_name, lib_ok) ==
    /\ Len(ValuesOf(test_frames, angle_name)) >= 2
    /\ Len(ValuesOf(golden_frames, angle_name)) >= 2
    /\ lib_ok

\* whether the loop body reaches "dtw_scores[angle_name] = ..." for the angle;
\* lib_ok: the import of fastdtw/scipy and the call succeed (else the
\* "except Exception" branch skips the angle)
DtwScored(test_frames, golden_frames, angle_name, lib_ok) ==
    /\ Len(ValuesOf(test_frames, angle_name)) >= 3
    /\ Len(ValuesOf(golden_frames, angle_name)) >= 3
    /\ lib_ok

\* mutant of DtwCandidates: every angle the golden frames hold is scored
DtwCandidatesFromData(pose, golden_frames) == AllAngleNames(golden_frames)

\* line 640: for angle_name in self.angle_config['angles']
DtwCandidates(pose, golden_frames) == ConfiguredAngles(pose)

evaluate_with_dtw(pose, test_frames, golden_frames, lib_ok) ==
    IF test_frames = <<>> \/ golden_frames = <<>>
    THEN [a \in {} |-> RZero]
    ELSE [a \in {n \in DtwCandidates(pose, golden_frames) :
                    DtwScored(test_frames, golden_frames, n, lib_ok)} |->
             FastDtwScore(ValuesOf(test_frames, a), ValuesOf(golden_frames, a))]

(***************************************************************************)
(* YogaPoseAnalyzer.evaluate_angles                                        *)
(***************************************************************************)
\* self.angle_config['tolerances'].get(angle_name, 15)
Tolerance(pose, angle_name) ==
    LET tolerances == angle_config(pose).tolerances
    IN  IF angle_name \in DOMAIN tolerances THEN tolerances[angle_name] ELSE 15

\* mutant of MeanBasedScore: the score outside the tolerance is not floored at 0
MeanBasedScoreNoFloor(test_mean, golden_mean, tolerance) ==
    LET abs_deviation == RAbs(RSub(test_mean, golden_mean))
        tol == RInt(tolerance)
    IN  IF RLe(abs_deviation, tol)
        THEN RSub(RInt(100), RMul(RDiv(abs_deviation, tol), RInt(30)))
        ELSE RSub(RInt(70), RMul(RDiv(RSub(abs_deviation, tol), tol), RInt(70)))

\* lines 559-570: the mean-based score
MeanBasedScore(test_mean, golden_mean, tolerance) ==
    LET deviation == RSub(test_mean, golden_mean)
        abs_deviation == RAbs(deviation)
        tol == RInt(tolerance)
    IN  IF RLe(abs_deviation, tol)
        THEN RSub(RInt(100), RMul(RDiv(abs_deviation, tol), RInt(30)))
        ELSE LET excess_deviation == RSub(abs_deviation, tol)
             IN  RMax(RZero,
                      RSub(RInt(70), RMul(RDiv(excess_deviation, tol), RInt(70))))

\* lines 572-580: the status thresholds
StatusOf(score) ==
    IF RGe(score, RInt(85)) THEN "EXCELLENT"
    ELSE IF RGe(score, RInt(70)) THEN "GOOD"
    ELSE IF RGe(score, RInt(50)) THEN "NEEDS_IMPROVEMENT"
    ELSE "POOR"

\* mutant of CombinedScore: the two weights are exchanged
CombinedScoreSwapped(score, dtw) ==
    IF dtw # None
    THEN RAdd(RMul(score, R(3, 10)), RMul(dtw, R(7, 10)))
    ELSE score

\* lines 585-589
CombinedScore(score, dtw) ==
    IF dtw # None
    THEN RAdd(RMul(score, R(7, 10)), RMul(dtw, R(3, 10)))
    ELSE score

\* mutant of Weight: every angle weighs the same
WeightUniform(golden_stats) == RInt(1)

\* golden_stats.get('confidence', 1.0)
Weight(golden_stats) ==
    IF "confidence" \in DOMAIN golden_stats THEN golden_stats.confidence ELSE RInt(1)

\* lines 554-601: the entry of angle_evaluations for one included angle
AngleEvaluation(pose, test_mean, golden_stats, angle_name, dtw_scores) ==
    LET golden_mean == golden_stats.mean
        tolerance == Tolerance(pose, angle_name)
        score == MeanBasedScore(test_mean, golden_mean, tolerance)
        status == StatusOf(score)
        dtw == IF angle_name \in DOMAIN dtw_scores THEN dtw_scores[angle_name] ELSE None
        combined_score == CombinedScore(score, dtw)
    IN  [test_mean |-> test_mean,
         golden_mean |-> golden_mean,
         deviation |-> RSub(test_mean, golden_mean),
         tolerance |-> tolerance,
         mean_based_score |-> score,
         dtw_score |-> dtw,
         combined_score |-> combined_score,
         score |-> combined_score,
         status |-> status]

\* mutant of TestAngleMeans: an angle absent from the test frames gets mean 0
TestAngleMeansZeroFilled(test_frames, gs) ==
    [a \in DOMAIN gs.angles |->
        IF ValuesOf(test_frames, a) # <<>> THEN Mean(ValuesOf(test_frames, a)) ELSE RZero]

\* lines 524-533: test_angle_means
TestAngleMeans(test_frames, gs) ==
    [a \in {n \in DOMAIN gs.angles : ValuesOf(test_frames, n) # <<>>} |->
        Mean(ValuesOf(test_frames, a))]

\* lines 608-609
OverallScore(total_score, total_weight) ==
    IF RGt(total_weight, RZero) THEN RDiv(total_score, total_weight) ELSE RZero

\* mutant of RejectsInput: only the missing statistics table is rejected
RejectsInputMissingTableOnly(test_frames, gs) == "angles" \notin DOMAIN gs

\* lines 518-522: the two checks that raise ValueError
RejectsInput(test_frames, gs) ==
    \/ test_frames = <<>>
    \/ "angles" \notin DOMAIN gs

evaluate_angles(pose, test_frames, gs, lib_ok) ==
    IF RejectsInput(test_frames, gs) THEN [kind |-> "ValueError"]
    ELSE
      LET test_angle_means == TestAngleMeans(test_frames, gs)
          dtw_scores ==
              IF "angle_sequences" \in DOMAIN gs /\ gs.angle_sequences # <<>>
              THEN evaluate_with_dtw(pose, test_frames, gs.angle_sequences, lib_ok)
              ELSE [a \in {} |-> RZero]
          included == DOMAIN test_angle_means
          angle_evaluations ==
              [a \in included |->
                  AngleEvaluation(pose, test_angle_means[a], gs.angles[a], a, dtw_scores)]
          total_score ==
              RSumOver(included,
                       [a \in included |->
                           RMul(angle_evaluations[a].combined_score, Weight(gs.angles[a]))])
          total_weight ==
              RSumOver(included, [a \in included |-> Weight(gs.angles[a])])
      IN  [kind |-> "ok",
           overall_score |-> OverallScore(total_score, total_weight),
           angle_evaluations |-> angle_evaluations,
           total_frames |-> Len(test_frames)]

(***************************************************************************)
(* Scoring pipeline: a training run collects angle_data and builds the     *)
(* golden standard; an evaluation run collects test_angles and scores      *)
(* them against a golden-standard document.                                *)
(***************************************************************************)
NotYet == [kind |-> "none"]

\* the variables of a part of the program that takes no part in a run
EvalIdle ==
    /\ angle_data = <<>>
    /\ golden_standard = NotYet
    /\ test_angles = <<>>
    /\ golden_arg = NotYet
    /\ fastdtw_ok = TRUE
    /\ evaluation = NotYet
    /\ evaluation_again = NotYet

AnglesIdle == landmarks = <<>> /\ angles = NotYet

DtwIdle == dtw_seq1 = <<>> /\ dtw_seq2 = <<>> /\ dtw_result = NotYet

FeedbackIdle == fb_evaluation = NotYet /\ pass_threshold = 0 /\ feedback = NotYet

HandlersIdle == s3_golden = NotYet /\ runs = <<>>

ValidationIdle == bedrock = NotYet /\ validation = NotYet

\* poses the analyzer is constructed with
PoseInputs == {"warrior-2", "downward-dog"}

\* per-frame angle dicts of the training video
GoldenFramePool ==
    {[left_knee |-> 90, spine_alignment |-> 90], [left_knee |-> 100],
     [left_knee |-> 100, spine_alignment |-> 80]}

\* per-frame angle dicts of the test video
TestFramePool ==
    {[left_knee |-> 95, spine_alignment |-> 90], [left_knee |-> 115],
     [spine_alignment |-> 130]}

\* documents evaluate_angles may be handed: the stored golden standard, one
\* stored before angle_sequences was added, one without the statistics table
GoldenDocs(doc) ==
    {doc,
     [k \in DOMAIN doc \ {"angle_sequences"} |-> doc[k]],
     [k \in DOMAIN doc \ {"angles"} |-> doc[k]]}

Init ==
    /\ pose_name \in PoseInputs
    /\ angle_data = <<>>
    /\ golden_standard = NotYet
    /\ test_angles = <<>>
    /\ golden_arg = NotYet
    /\ fastdtw_ok = TRUE
    /\ evaluation = NotYet
    /\ evaluation_again = NotYet
    /\ landmarks = <<>>
    /\ angles = NotYet
    /\ DtwIdle
    /\ FeedbackIdle
    /\ HandlersIdle
    /\ ValidationIdle

\* training handler, lines 194-198: angle_data.append(angles)
AddTrainingFrame ==
    /\ golden_standard = NotYet
    /\ Len(angle_data) < MaxGoldenFrames
    /\ \E f \in GoldenFramePool : angle_data' = Append(angle_data, f)
    /\ UNCHANGED <<pose_name, golden_standard, test_angles, golden_arg, fastdtw_ok,
                   evaluation, evaluation_again, landmarks, angles, dtwVars, feedbackVars,
                   handlerVars, validationVars>>

CreateGoldenStandard ==
    /\ golden_standard = NotYet
    /\ golden_standard' = create_golden_standard(pose_name, angle_data)
    /\ UNCHANGED <<pose_name, angle_data, test_angles, golden_arg, fastdtw_ok,
                   evaluation, evaluation_again, landmarks, angles, dtwVars, feedbackVars,
                   handlerVars, validationVars>>

\* testing handler, lines 233-236: angle_data.append(angles)
AddTestFrame ==
    /\ golden_standard.kind = "ok"
    /\ evaluation = NotYet
    /\ Len(test_angles) < MaxTestFrames
    /\ \E f \in TestFramePool : test_angles' = Append(test_angles, f)
    /\ UNCHANGED <<pose_name, angle_data, golden_standard, golden_arg, fastdtw_ok,
                   evaluation, evaluation_again, landmarks, angles, dtwVars, feedbackVars,
                   handlerVars, validationVars>>

\* mutant of ArgumentsAfterEvaluate: the golden angles that no test frame
\* holds are removed from the statistics table of the argument
ArgumentsAfterEvaluatePruned(test_frames, gs) ==
    [test_angles |-> test_frames,
     golden_standard |->
         IF test_frames # <<>> /\ "angles" \in DOMAIN gs
         THEN [gs EXCEPT !.angles =
                  [a \in {n \in DOMAIN gs.angles : ValuesOf(test_frames, n) # <<>>} |->
                      gs.angles[a]]]
         ELSE gs]

\* the two arguments of evaluate_angles as the caller holds them once the
\* call has returned or raised: evaluate_angles and evaluate_with_dtw read
\* them into new lists and dicts (lines 526-533, 640-652) and assign to no
\* part of them
ArgumentsAfterEvaluate(test_frames, gs) ==
    [test_angles |-> test_frames, golden_standard |-> gs]

\* testing handler, line 270
EvaluateAngles ==
    /\ golden_standard.kind = "ok"
    /\ evaluation = NotYet
    /\ \E gs \in GoldenDocs(golden_standard.doc), lib_ok \in BOOLEAN :
          /\ fastdtw_ok' = lib_ok
          /\ evaluation' = evaluate_angles(pose_name, test_angles, gs, lib_ok)
          /\ golden_arg' = ArgumentsAfterEvaluate(test_angles, gs).golden_standard
          /\ test_angles' = ArgumentsAfterEvaluate(test_angles, gs).test_angles
    /\ UNCHANGED <<pose_name, angle_data, golden_standard, evaluation_again, landmarks,
                   angles, dtwVars, feedbackVars, handlerVars, validationVars>>

\* evaluate_angles called once more on the same analyzer with the arguments
\* the caller still holds, in the same environment
EvaluateAnglesAgain ==
    /\ evaluation # NotYet
    /\ evaluation_again = NotYet
    /\ evaluation_again' = evaluate_angles(pose_name, test_angles, golden_arg, fastdtw_ok)
    /\ golden_arg' = ArgumentsAfterEvaluate(test_angles, golden_arg).golden_standard
    /\ test_angles' = ArgumentsAfterEvaluate(test_angles, golden_arg).test_angles
    /\ UNCHANGED <<pose_name, angle_data, golden_standard, fastdtw_ok, evaluation,
                   landmarks, angles, dtwVars, feedbackVars, handlerVars, validationVars>>

Next ==
    \/ AddTrainingFrame
    \/ CreateGoldenStandard
    \/ AddTestFrame
    \/ EvaluateAngles
    \/ EvaluateAnglesAgain

Spec == Init /\ [][Next]_vars

(***************************************************************************)
(* Angle Calculator.  A landmark is [x, y, z, visibility] with rational    *)
(* fields.  The value _calculate_angle returns is                          *)
(*   [kind |-> "angle", sign, cos_squared]  degrees(acos(c)) with          *)
(*        c = sign * sqrt(cos_squared) = dot / (|v1| * |v2|), which        *)
(*        determines the angle (np.clip leaves an exact c unchanged);      *)
(*   [kind |-> "nan"]    float('nan');                                     *)
(*   [kind |-> "None"]   None.                                             *)
(***************************************************************************)
NaN == [kind |-> "nan"]
NoAngle == [kind |-> "None"]

Sign(n) == IF n > 0 THEN 1 ELSE IF n < 0 THEN -1 ELSE 0

Vector(p, q) == [x |-> RSub(p.x, q.x), y |-> RSub(p.y, q.y), z |-> RSub(p.z, q.z)]
Dot(u, w) == RAdd(RAdd(RMul(u.x, w.x), RMul(u.y, w.y)), RMul(u.z, w.z))

\* _calculate_angle(point1, point2, point3), point2 the vertex.  vector1 and
\* vector2 are numpy arrays and the quotient is a numpy float: with a norm of
\* zero it is 0.0 / 0.0 = nan (a RuntimeWarning, not a ZeroDivisionError), which
\* np.clip, math.acos and math.degrees pass on, so the except clause is not
\* entered and nan is returned.
_calculate_angle(point1, point2, point3) ==
    LET vector1 == Vector(point1, point2)
        vector2 == Vector(point3, point2)
        dot == Dot(vector1, vector2)
        norms_squared == RMul(Dot(vector1, vector1), Dot(vector2, vector2))
    IN  IF norms_squared = RZero
        THEN NaN
        ELSE [kind |-> "angle",
              sign |-> Sign(dot[1]),
              cos_squared |-> RDiv(RMul(dot, dot), norms_squared)]

\* self.visibility_threshold as the handlers construct the analyzer (0.3)
visibility_threshold == R(3, 10)

\* mutant of _check_landmarks_visible: a landmark exactly at the threshold is
\* taken to be not visible
_check_landmarks_visible_strict(lms, landmark_names) ==
    \A name \in landmark_names :
        /\ name \in DOMAIN lms
        /\ RGt(lms[name].visibility, visibility_threshold)

_check_landmarks_visible(lms, landmark_names) ==
    \A name \in landmark_names :
        /\ name \in DOMAIN lms
        /\ ~RLt(lms[name].visibility, visibility_threshold)

\* the landmark triple (point1, vertex, point3) each block of calculate_angles
\* uses for a joint angle
JointLandmarks ==
    [left_shoulder  |-> <<"left_shoulder", "left_elbow", "left_wrist">>,
     right_shoulder |-> <<"right_shoulder", "right_elbow", "right_wrist">>,
     left_hip       |-> <<"left_shoulder", "left_hip", "left_knee">>,
     right_hip      |-> <<"right_shoulder", "right_hip", "right_knee">>,
     left_knee      |-> <<"left_hip", "left_knee", "left_ankle">>,
     right_knee     |-> <<"right_hip", "right_knee", "right_ankle">>,
     left_elbow     |-> <<"left_shoulder", "left_elbow", "left_wrist">>,
     right_elbow    |-> <<"right_shoulder", "right_elbow", "right_wrist">>]

SpineLandmarks == {"left_hip", "right_hip", "left_shoulder", "right_shoulder", "nose"}

\* the landmarks whose visibility calculate_angles checks for an angle
DefiningLandmarks(angle_name) ==
    IF angle_name = "spine_alignment" THEN SpineLandmarks
    ELSE {JointLandmarks[angle_name][i] : i \in 1..3}

Midpoint(p, q) ==
    [x |-> RDiv(RAdd(p.x, q.x), RInt(2)),
     y |-> RDiv(RAdd(p.y, q.y), RInt(2)),
     z |-> RDiv(RAdd(p.z, q.z), RInt(2))]

\* the three points handed to _calculate_angle for an angle whose landmarks
\* are all in lms
AnglePoints(lms, angle_name) ==
    IF angle_name = "spine_alignment"
    THEN <<Midpoint(lms["left_hip"], lms["right_hip"]),
           Midpoint(lms["left_shoulder"], lms["right_shoulder"]),
           lms["nose"]>>
    ELSE [i \in 1..3 |-> lms[JointLandmarks[angle_name][i]]]

\* the value one block of calculate_angles passes to "if angle is not None"
AngleOf(lms, angle_name) ==
    LET pts == AnglePoints(lms, angle_name)
    IN  _calculate_angle(pts[1], pts[2], pts[3])

\* one "if name in self.angle_config['angles']" block: whether it stores an entry
AngleStored(pose, lms, angle_name) ==
    /\ angle_name \in ConfiguredAngles(pose)
    /\ _check_landmarks_visible(lms, DefiningLandmarks(angle_name))
    /\ AngleOf(lms, angle_name) # NoAngle

calculate_angles(pose, lms) ==
    [a \in {n \in DOMAIN JointLandmarks \cup {"spine_alignment"} :
               AngleStored(pose, lms, n)} |-> AngleOf(lms, a)]

(***************************************************************************)
(* Landmark sets: detect_pose_landmarks fills the dict name by name in     *)
(* the order of LANDMARK_INDICES.                                          *)
(***************************************************************************)
LANDMARK_NAMES ==
    <<"nose", "left_shoulder", "right_shoulder", "left_elbow", "right_elbow",
      "left_wrist", "right_wrist", "left_hip", "right_hip", "left_knee",
      "right_knee", "left_ankle", "right_ankle">>

Landmark(px, py, pz, vis) ==
    [x |-> RInt(px), y |-> RInt(py), z |-> RInt(pz), visibility |-> R(vis, 10)]

\* the landmarks the detector may report for a name: position (grid units)
\* and visibility (tenths)
LandmarkChoices(name) ==
    CASE name = "nose" -> {Landmark(5, 0, 0, 9), Landmark(5, 0, 0, 2),
                           Landmark(5, 2, 0, 9)}       \* on the shoulder midpoint
      [] name = "left_shoulder" -> {Landmark(4, 2, 0, 9), Landmark(4, 2, 0, 2)}
      [] name = "right_shoulder" -> {Landmark(6, 2, 0, 9), Landmark(6, 2, 0, 2)}
      [] name = "left_elbow" -> {Landmark(3, 4, 0, 9), Landmark(3, 4, 0, 2),
                                 Landmark(4, 2, 0, 9)} \* on the left shoulder
      [] name = "right_elbow" -> {Landmark(7, 4, 0, 9), Landmark(7, 4, 0, 2)}
      [] name = "left_wrist" -> {Landmark(2, 6, 0, 9), Landmark(2, 6, 0, 3),
                                 Landmark(2, 6, 0, 2)}
      [] name = "right_wrist" -> {Landmark(8, 6, 0, 9)}
      [] name = "left_hip" -> {Landmark(4, 8, 0, 9), Landmark(4, 8, 0, 2)}
      [] name = "right_hip" -> {Landmark(6, 8, 0, 9), Landmark(6, 8, 0, 2)}
      [] name = "left_knee" -> {Landmark(4, 11, 1, 9), Landmark(4, 11, 1, 2)}
      [] name = "right_knee" -> {Landmark(6, 11, 0, 9)}
      [] name = "left_ankle" -> {Landmark(4, 14, 0, 9), Landmark(4, 14, 0, 2)}
      [] name = "right_ankle" -> {Landmark(6, 14, 0, 9)}

InitAngles ==
    /\ pose_name \in PoseInputs
    /\ angle_data = <<>>
    /\ golden_standard = NotYet
    /\ test_angles = <<>>
    /\ golden_arg = NotYet
    /\ fastdtw_ok = TRUE
    /\ evaluation = NotYet
    /\ evaluation_again = NotYet
    /\ landmarks = <<>>
    /\ angles = NotYet
    /\ DtwIdle
    /\ FeedbackIdle
    /\ HandlersIdle
    /\ ValidationIdle

\* detect_pose_landmarks, lines 186-194: the next entry of the landmark dict
DetectLandmark ==
    /\ angles = NotYet
    /\ Cardinality(DOMAIN landmarks) < Len(LANDMARK_NAMES)
    /\ LET name == LANDMARK_NAMES[Cardinality(DOMAIN landmarks) + 1]
       IN  \E lm \in LandmarkChoices(name) :
              landmarks' = [n \in DOMAIN landmarks \cup {name} |->
                               IF n = name THEN lm ELSE landmarks[n]]
    /\ UNCHANGED <<pose_name, evalVars, angles, dtwVars, feedbackVars, handlerVars, validationVars>>

CalculateAngles ==
    /\ angles = NotYet
    /\ angles' = [kind |-> "ok", value |-> calculate_angles(pose_name, landmarks)]
    /\ UNCHANGED <<pose_name, evalVars, landmarks, dtwVars, feedbackVars, handlerVars, validationVars>>

NextAngles ==
    \/ DetectLandmark
    \/ CalculateAngles

SpecAngles == InitAngles /\ [][NextAngles]_vars

(***************************************************************************)
(* The DTW functions applied to a pair of numeric sequences: dtw_distance, *)
(* normalized_dtw_distance and dtw_score of dtw_simple.py, and the score   *)
(* the try block of evaluate_with_dtw computes from fastdtw.               *)
(***************************************************************************)
\* values of the sequences; 10 against 400 is a distance no score survives
DtwValues == {10, 20, 400}

\* max_angle_diff: float = 180.0, the default of dtw_score
max_angle_diff_default == 180

InitDtw ==
    /\ pose_name = "warrior-2"
    /\ EvalIdle
    /\ AnglesIdle
    /\ dtw_seq1 = <<>>
    /\ dtw_seq2 = <<>>
    /\ dtw_result = NotYet
    /\ FeedbackIdle
    /\ HandlersIdle
    /\ ValidationIdle

AppendSeq1 ==
    /\ dtw_result = NotYet
    /\ Len(dtw_seq1) < MaxSeqLen
    /\ \E v \in DtwValues : dtw_seq1' = Append(dtw_seq1, v)
    /\ UNCHANGED <<pose_name, evalVars, angleVars, dtw_seq2, dtw_result, feedbackVars,
                   handlerVars, validationVars>>

AppendSeq2 ==
    /\ dtw_result = NotYet
    /\ Len(dtw_seq2) < MaxSeqLen
    /\ \E v \in DtwValues : dtw_seq2' = Append(dtw_seq2, v)
    /\ UNCHANGED <<pose_name, evalVars, angleVars, dtw_seq1, dtw_result, feedbackVars,
                   handlerVars, validationVars>>

\* the calls dtw_distance(seq1, seq2), normalized_dtw_distance(seq1, seq2) and
\* dtw_score(seq1, seq2), and lines 663-674 of evaluate_with_dtw, which are
\* reached with at least 3 values on each side
ComputeDtw ==
    /\ dtw_result = NotYet
    /\ dtw_result' =
          [kind |-> "ok",
           distance |-> dtw_distance(dtw_seq1, dtw_seq2),
           distance_swapped |-> dtw_distance(dtw_seq2, dtw_seq1),
           normalized |-> normalized_dtw_distance(dtw_seq1, dtw_seq2),
           score |-> dtw_score(dtw_seq1, dtw_seq2, max_angle_diff_default),
           fastdtw_score |->
               IF Len(dtw_seq1) >= 3 /\ Len(dtw_seq2) >= 3
               THEN FastDtwScore(dtw_seq1, dtw_seq2)
               ELSE None]
    /\ UNCHANGED <<pose_name, evalVars, angleVars, dtw_seq1, dtw_seq2, feedbackVars,
                   handlerVars, validationVars>>

NextDtw ==
    \/ AppendSeq1
    \/ AppendSeq2
    \/ ComputeDtw

SpecDtw == InitDtw /\ [][NextDtw]_vars

(***************************************************************************)
(* Properties of the DTW functions, checked under SpecDtw.                 *)
(***************************************************************************)
DtwComputed == dtw_result.kind = "ok"

\* C13: for a sequence of length >= 3 compared with itself the DTW distance
\* is exactly 0 and the DTW score exactly 100, with the hand-rolled DTW of
\* dtw_simple.py and with the score evaluate_with_dtw computes.
C13_SelfDistanceZero ==
    (DtwComputed /\ dtw_seq1 = dtw_seq2 /\ Len(dtw_seq1) >= 3) =>
        /\ dtw_result.distance = Fin(0)
        /\ dtw_result.normalized = Fin(RZero)
        /\ dtw_result.score = RInt(100)
        /\ dtw_result.fastdtw_score = RInt(100)

\* a sequence of three or more values that are not all equal, scored
\* against itself
C13_Witness ==
    /\ DtwComputed
    /\ dtw_seq1 = dtw_seq2
    /\ Len(dtw_seq1) >= 3
    /\ \E i, j \in 1..Len(dtw_seq1) : dtw_seq1[i] # dtw_seq1[j]

\* the cost matrix as the recurrence states it, cell by cell in row-major
\* order: cells holds C[0][0] .. up to the cell before C[i][j], a row has
\* Len(b) + 1 cells
LeastCell(cs) ==
    IF \A c \in cs : c.inf THEN Infinity
    ELSE Fin(CHOOSE v \in {c.v : c \in {d \in cs : ~d.inf}} :
                 \A c \in {d \in cs : ~d.inf} : v <= c.v)

RECURSIVE CostMatrixFrom(_, _, _)
CostMatrixFrom(a, b, cells) ==
    LET w == Len(b) + 1
        i == Len(cells) \div w
        j == Len(cells) % w
        At(r, c) == cells[r * w + c + 1]
        cell == IF i = 0 /\ j = 0 THEN Fin(0)
                ELSE IF i = 0 \/ j = 0 THEN Infinity
                ELSE LET least == LeastCell({At(i - 1, j), At(i, j - 1), At(i - 1, j - 1)})
                     IN  IF least.inf THEN Infinity
                         ELSE Fin(Abs(a[i] - b[j]) + least.v)
    IN  IF Len(cells) = (Len(a) + 1) * w THEN cells
        ELSE CostMatrixFrom(a, b, Append(cells, cell))

CostMatrixCorner(a, b) == CostMatrixFrom(a, b, <<>>)[(Len(a) + 1) * (Len(b) + 1)]

\* C24: dtw_distance(a, b) is the cell C[n][m] of the cost matrix with
\* C[0][0] = 0, +infinity in the rest of row 0 and column 0 and
\* C[i][j] = |a[i-1] - b[j-1]| + min(C[i-1][j], C[i][j-1], C[i-1][j-1]),
\* and dtw_distance(b, a) is the same value.
C24_DtwRecurrenceSymmetric ==
    DtwComputed =>
        /\ dtw_result.distance = CostMatrixCorner(dtw_seq1, dtw_seq2)
        /\ dtw_result.distance_swapped = dtw_result.distance

\* two sequences of different lengths and different values at a finite
\* distance above 0 that the diagonal alone does not give
C24_Witness ==
    /\ DtwComputed
    /\ Len(dtw_seq1) >= 2
    /\ Len(dtw_seq2) > Len(dtw_seq1)
    /\ ~dtw_result.distance.inf
    /\ dtw_result.distance.v > 0
    /\ dtw_result.distance_swapped = dtw_result.distance
    /\ dtw_seq1[1] # dtw_seq2[1]

\* C14: the DTW score of two sequences lies in [0, 100], for dtw_score of
\* dtw_simple.py and for the score evaluate_with_dtw computes: at most 100
\* and 0 when the normalised distance exceeds the cap.
C14_DtwScoreInRange ==
    DtwComputed =>
        /\ RLe(RZero, dtw_result.score)
        /\ RLe(dtw_result.score, RInt(100))
        /\ dtw_result.fastdtw_score # None =>
              /\ RLe(RZero, dtw_result.fastdtw_score)
              /\ RLe(dtw_result.fastdtw_score, RInt(100))

\* a normalised distance above 180: the score of dtw_simple.py is clamped
\* at 0, and so is the score of evaluate_with_dtw
C14_Witness ==
    /\ DtwComputed
    /\ ~dtw_result.normalized.inf
    /\ RGt(dtw_result.normalized.v, RInt(max_angle_diff_default))
    /\ dtw_result.score = RZero
    /\ dtw_result.fastdtw_score = RZero

(***************************************************************************)
(* Properties of evaluate_angles, checked under Spec.                      *)
(***************************************************************************)
Evaluated == evaluation.kind = "ok"

\* the values of an angle in the test sequence and in the golden sequence
\* that evaluate_angles was handed
TestValues(a) == ValuesOf(test_angles, a)
GoldenValues(a) ==
    IF "angle_sequences" \in DOMAIN golden_arg
    THEN ValuesOf(golden_arg.angle_sequences, a)
    ELSE <<>>

\* the golden angles that occur in at least one test frame
PresentAngles ==
    {a \in DOMAIN golden_arg.angles :
        \E i \in 1..Len(test_angles) : a \in DOMAIN test_angles[i]}

\* C1: the status of every included angle is the threshold class of its
\* combined_score: >= 85 EXCELLENT, >= 70 GOOD, >= 50 NEEDS_IMPROVEMENT,
\* otherwise POOR.
C1_StatusFollowsCombinedScore ==
    Evaluated =>
        \A a \in DOMAIN evaluation.angle_evaluations :
            LET e == evaluation.angle_evaluations[a]
                c == e.combined_score
            IN  e.status = IF c[1] >= 85 * c[2] THEN "EXCELLENT"
                           ELSE IF c[1] >= 70 * c[2] THEN "GOOD"
                           ELSE IF c[1] >= 50 * c[2] THEN "NEEDS_IMPROVEMENT"
                           ELSE "POOR"

\* C2: for every angle with n >= 3 test values and m >= 3 golden values the
\* dtw_score that evaluate_angles records is
\* max(0, 100 - ((D / (n + m)) / 180) * 100) with D the distance of the
\* hand-rolled DTW of dtw_simple.py.
C2_DtwScoreIsHandRolled ==
    Evaluated =>
        \A a \in DOMAIN evaluation.angle_evaluations :
            (/\ Len(TestValues(a)) >= 3
             /\ Len(GoldenValues(a)) >= 3
             /\ evaluation.angle_evaluations[a].dtw_score # None) =>
                evaluation.angle_evaluations[a].dtw_score
                    = dtw_score(TestValues(a), GoldenValues(a), 180)

\* the static score of the claim for abs_dev = p/q and tolerance tol
ClaimedStaticScore(p, q, tol) ==
    IF p <= tol * q
    THEN R(100 * tol * q - 30 * p, tol * q)
    ELSE IF 70 * tol * q - 70 * (p - tol * q) > 0
         THEN R(70 * tol * q - 70 * (p - tol * q), tol * q)
         ELSE RZero

\* C3: the static score of an included angle is 100 - (abs_dev/tol)*30 when
\* abs_dev <= tol and max(0, 70 - ((abs_dev - tol)/tol)*70) otherwise, with
\* abs_dev = |test_mean - golden_mean|; so it is 100 at abs_dev = 0, 70 at
\* abs_dev = tol and 0 from abs_dev = 2*tol on.
C3_StaticScoreFormula ==
    Evaluated =>
        \A a \in DOMAIN evaluation.angle_evaluations :
            LET e == evaluation.angle_evaluations[a]
                tol == Tolerance(pose_name, a)
                abs_dev == RAbs(RSub(Mean(TestValues(a)), golden_arg.angles[a].mean))
                p == abs_dev[1]
                q == abs_dev[2]
            IN  /\ e.mean_based_score = ClaimedStaticScore(p, q, tol)
                /\ (p = 0 => e.mean_based_score = RInt(100))
                /\ (p = tol * q => e.mean_based_score = RInt(70))
                /\ (p >= 2 * tol * q => e.mean_based_score = RZero)

\* golden mean 90, tolerance 10, test mean 95: static score 85
C3_Witness ==
    /\ Evaluated
    /\ \E a \in DOMAIN evaluation.angle_evaluations :
          LET e == evaluation.angle_evaluations[a]
          IN  /\ e.golden_mean = RInt(90)
              /\ e.test_mean = RInt(95)
              /\ e.tolerance = 10
              /\ e.mean_based_score = RInt(85)

\* C4: a golden angle that occurs in no test frame has no entry in the
\* per-angle results, and the weights of overall_score are those of the
\* angles that do occur: overall_score * (sum of their confidences) is the
\* sum of their combined_score * confidence.
C4_AbsentAngleExcluded ==
    Evaluated =>
        /\ \A a \in DOMAIN golden_arg.angles \ PresentAngles :
              a \notin DOMAIN evaluation.angle_evaluations
        /\ RMul(evaluation.overall_score,
                RSumOver(PresentAngles,
                         [a \in PresentAngles |-> golden_arg.angles[a].confidence]))
             = RSumOver(PresentAngles,
                        [a \in PresentAngles |->
                            RMul(evaluation.angle_evaluations[a].combined_score,
                                 golden_arg.angles[a].confidence)])

\* an angle of the golden standard is absent from the test frames while
\* another one is scored
C4_Witness ==
    /\ Evaluated
    /\ DOMAIN golden_arg.angles \ PresentAngles # {}
    /\ PresentAngles # {}
    /\ RGt(evaluation.overall_score, RZero)

\* C5: overall_score is the confidence-weighted mean of the combined scores
\* of the included angles, and 0 when no angle is included or the weights
\* sum to zero.
C5_OverallScoreWeighted ==
    Evaluated =>
        LET inc == DOMAIN evaluation.angle_evaluations
            total_weight ==
                RSumOver(inc, [a \in inc |-> golden_arg.angles[a].confidence])
            total_score ==
                RSumOver(inc, [a \in inc |->
                                  RMul(evaluation.angle_evaluations[a].combined_score,
                                       golden_arg.angles[a].confidence)])
        IN  IF inc = {} \/ total_weight = RZero
            THEN evaluation.overall_score = RZero
            ELSE evaluation.overall_score = RDiv(total_score, total_weight)

\* two included angles with different confidences and different scores
C5_Witness ==
    /\ Evaluated
    /\ \E a, b \in DOMAIN evaluation.angle_evaluations :
          /\ golden_arg.angles[a].confidence # golden_arg.angles[b].confidence
          /\ evaluation.angle_evaluations[a].combined_score
               # evaluation.angle_evaluations[b].combined_score

\* C6: combined_score is static_score when dtw_score is null and
\* 0.7 * static_score + 0.3 * dtw_score otherwise, hence between the two.
C6_CombinedScoreBlend ==
    Evaluated =>
        \A a \in DOMAIN evaluation.angle_evaluations :
            LET e == evaluation.angle_evaluations[a]
                s == e.mean_based_score
                d == e.dtw_score
                c == e.combined_score
            IN  IF d = None
                THEN c = s
                ELSE /\ RMul(RInt(10), c) = RAdd(RMul(RInt(7), s), RMul(RInt(3), d))
                     /\ RLe(RMin(s, d), c)
                     /\ RLe(c, RMax(s, d))

\* an angle whose dtw_score is not null and differs from its static score
C6_Witness ==
    /\ Evaluated
    /\ \E a \in DOMAIN evaluation.angle_evaluations :
          LET e == evaluation.angle_evaluations[a]
          IN  /\ e.dtw_score # None
              /\ e.dtw_score # e.mean_based_score
              /\ RLt(e.dtw_score, e.combined_score)
              /\ RLt(e.combined_score, e.mean_based_score)

\* C7: with at least one included angle, overall_score lies in [0, 100].
C7_OverallScoreInRange ==
    (Evaluated /\ DOMAIN evaluation.angle_evaluations # {}) =>
        /\ RLe(RZero, evaluation.overall_score)
        /\ RLe(evaluation.overall_score, RInt(100))

\* an evaluation whose only included angle has its DTW score clamped at 0
C7_Witness ==
    /\ Evaluated
    /\ Cardinality(DOMAIN evaluation.angle_evaluations) = 1
    /\ \E a \in DOMAIN evaluation.angle_evaluations :
          evaluation.angle_evaluations[a].dtw_score = RZero
    /\ \A a \in DOMAIN golden_arg.angles :
          /\ RLe(RZero, golden_arg.angles[a].confidence)
          /\ RLe(golden_arg.angles[a].confidence, RInt(1))

\* C8: an angle with fewer than 3 test values or fewer than 3 golden values
\* gets dtw_score null and its static score as combined_score, the call
\* completes, and an angle with enough values still gets its dtw_score.
C8_InsufficientDataSkipped ==
    /\ (evaluation # NotYet /\ test_angles # <<>> /\ "angles" \in DOMAIN golden_arg)
          => Evaluated
    /\ Evaluated =>
          \A a \in DOMAIN evaluation.angle_evaluations :
              LET e == evaluation.angle_evaluations[a]
              IN  IF Len(TestValues(a)) < 3 \/ Len(GoldenValues(a)) < 3
                  THEN e.dtw_score = None /\ e.combined_score = e.mean_based_score
                  ELSE (fastdtw_ok /\ a \in ConfiguredAngles(pose_name))
                          => e.dtw_score # None

\* one angle is short of golden values and has no dtw_score while another
\* angle of the same evaluation has one
C8_Witness ==
    /\ Evaluated
    /\ \E a, b \in DOMAIN evaluation.angle_evaluations :
          /\ Len(TestValues(a)) >= 3
          /\ Len(GoldenValues(a)) \in 1..2
          /\ evaluation.angle_evaluations[a].dtw_score = None
          /\ evaluation.angle_evaluations[b].dtw_score # None

\* the angle names of the pose configuration of the analyzer
PoseAngleList == POSE_ANGLE_DEFINITIONS[pose_name].angles

NotConfigured(a) == \A i \in 1..Len(PoseAngleList) : PoseAngleList[i] # a

\* C29: an angle that is in the golden statistics and in the test frames
\* but not in the angle list of the analyzer's pose gets dtw_score null,
\* the default tolerance 15 and its static score as combined_score, also
\* with 3 or more values on both sides.
C29_UnconfiguredAngleNoDtw ==
    Evaluated =>
        \A a \in DOMAIN evaluation.angle_evaluations :
            NotConfigured(a) =>
                LET e == evaluation.angle_evaluations[a]
                IN  /\ e.dtw_score = None
                    /\ e.tolerance = 15
                    /\ e.combined_score = e.mean_based_score
                    /\ e.mean_based_score =
                          MeanBasedScore(e.test_mean, e.golden_mean, 15)

\* warrior-2 does not list spine_alignment: it is evaluated from 3 test
\* and 3 golden values without a dtw_score while left_knee has one
C29_Witness ==
    /\ Evaluated
    /\ pose_name = "warrior-2"
    /\ fastdtw_ok
    /\ "spine_alignment" \in DOMAIN evaluation.angle_evaluations
    /\ Len(TestValues("spine_alignment")) >= 3
    /\ Len(GoldenValues("spine_alignment")) >= 3
    /\ evaluation.angle_evaluations["spine_alignment"].dtw_score = None
    /\ "left_knee" \in DOMAIN evaluation.angle_evaluations
    /\ evaluation.angle_evaluations["left_knee"].dtw_score # None

\* C15: when the test sequence is empty or the golden standard has no
\* 'angles' table, evaluate_angles raises ValueError and returns nothing: no
\* overall score and no per-angle result exists.
C15_InvalidInputRejected ==
    (evaluation # NotYet /\ (test_angles = <<>> \/ "angles" \notin DOMAIN golden_arg)) =>
        /\ evaluation.kind = "ValueError"
        /\ DOMAIN evaluation = {"kind"}

\* evaluate_angles has been called with an empty test sequence and a
\* complete golden standard
C15_Witness ==
    /\ test_angles = <<>>
    /\ golden_standard.kind = "ok"
    /\ golden_arg = golden_standard.doc
    /\ evaluation.kind = "ValueError"

\* evaluate_angles has been called with test frames and a golden standard
\* without the statistics table
MissingTableRejected ==
    /\ test_angles # <<>>
    /\ golden_arg # NotYet
    /\ "angles" \notin DOMAIN golden_arg
    /\ evaluation.kind = "ValueError"

GoldenCreated == golden_standard.kind = "ok"

\* the angle names a training frame may hold
PoolAngleNames == UNION {DOMAIN f : f \in GoldenFramePool}

\* C11: for a non-empty angle sequence every entry of the statistics table
\* has min <= mean <= max, std >= 0, 1 <= count <= total_frames and
\* confidence = count / total_frames in [0, 1], total_frames being the
\* length of the whole sequence; the table has an entry exactly for the
\* angle names that occur in at least one frame.
C11_AggregateStatistics ==
    GoldenCreated =>
        LET doc == golden_standard.doc
        IN  /\ angle_data # <<>>
            /\ doc.total_frames = Len(angle_data)
            /\ DOMAIN doc.angles \subseteq PoolAngleNames
            /\ \A a \in PoolAngleNames :
                  a \in DOMAIN doc.angles <=>
                      \E i \in 1..Len(angle_data) : a \in DOMAIN angle_data[i]
            /\ \A a \in DOMAIN doc.angles :
                  LET st == doc.angles[a]
                  IN  /\ RLe(RInt(st.min), st.mean)
                      /\ RLe(st.mean, RInt(st.max))
                      /\ RGe(st.std_squared, RZero)
                      /\ 1 <= st.count
                      /\ st.count <= doc.total_frames
                      /\ st.confidence = R(st.count, doc.total_frames)
                      /\ RLe(RZero, st.confidence)
                      /\ RLe(st.confidence, RInt(1))

\* an angle that some frames lack (count below total_frames) and whose
\* values differ (min < mean < max)
C11_Witness ==
    /\ GoldenCreated
    /\ \E a \in DOMAIN golden_standard.doc.angles :
          LET st == golden_standard.doc.angles[a]
          IN  /\ st.count < golden_standard.doc.total_frames
              /\ RLt(RInt(st.min), st.mean)
              /\ RLt(st.mean, RInt(st.max))

\* C12: angle_sequences of the golden standard is the input sequence itself,
\* frame by frame in the same order with the same entries (a frame lacking
\* an angle is kept as it is), and total_frames is its length.
C12_SequencesVerbatim ==
    GoldenCreated =>
        /\ golden_standard.doc.angle_sequences = angle_data
        /\ golden_standard.doc.total_frames = Len(golden_standard.doc.angle_sequences)

\* a stored sequence with a frame that lacks an angle another frame holds
C12_Witness ==
    /\ GoldenCreated
    /\ Len(golden_standard.doc.angle_sequences) >= 2
    /\ \E i, j \in 1..Len(golden_standard.doc.angle_sequences) :
          DOMAIN golden_standard.doc.angle_sequences[i] #
              DOMAIN golden_standard.doc.angle_sequences[j]

\* C16: on an empty angle sequence create_golden_standard raises ValueError
\* and yields no golden standard.
C16_EmptySequenceRejected ==
    (golden_standard # NotYet /\ angle_data = <<>>) =>
        /\ golden_standard.kind = "ValueError"
        /\ "doc" \notin DOMAIN golden_standard

\* create_golden_standard has been called on the empty sequence
C16_Witness ==
    /\ angle_data = <<>>
    /\ golden_standard.kind = "ValueError"

(***************************************************************************)
(* Properties of calculate_angles, checked under SpecAngles.               *)
(***************************************************************************)
Calculated == angles.kind = "ok"

\* every defining landmark of the angle is in the landmark set with
\* visibility >= 0.3
AllVisible(a) ==
    \A l \in DefiningLandmarks(a) :
        l \in DOMAIN landmarks /\ 10 * landmarks[l].visibility[1] >= 3 * landmarks[l].visibility[2]

\* the three points of the angle: the vertex is the second
PointsOf(a) == AnglePoints(landmarks, a)

SamePosition(p, q) == p.x = q.x /\ p.y = q.y /\ p.z = q.z

\* one of the two vectors from the vertex has zero length
ZeroLengthVector(a) ==
    \/ SamePosition(PointsOf(a)[1], PointsOf(a)[2])
    \/ SamePosition(PointsOf(a)[3], PointsOf(a)[2])

\* the returned FrameAngles holds an angle (a number of degrees) for the name
HasAngle(a) == a \in DOMAIN angles.value /\ angles.value[a].kind = "angle"

\* C9: calculate_angles computes a configured angle (stores an entry for it)
\* if and only if each of its defining landmarks is present with
\* visibility >= the threshold and the angle is defined; the decision is
\* made per angle.
C9_AngleComputedIffVisible ==
    Calculated =>
        \A a \in ConfiguredAngles(pose_name) :
            a \in DOMAIN angles.value <=> (AllVisible(a) /\ ~ZeroLengthVector(a))

\* What calculate_angles does decide per angle: an entry is stored exactly
\* for the configured angles whose defining landmarks are all visible, and
\* it is a number of degrees exactly when the angle is also defined.
VisibilityGating ==
    Calculated =>
        /\ DOMAIN angles.value = {a \in ConfiguredAngles(pose_name) : AllVisible(a)}
        /\ \A a \in DOMAIN angles.value : HasAngle(a) <=> ~ZeroLengthVector(a)

\* a landmark below the threshold suppresses the angles that use it (left
\* knee, by the left ankle) while an angle that does not use it (left hip) is
\* computed, with a landmark exactly at the threshold counted as visible
VisibilityGatingWitness ==
    /\ Calculated
    /\ DOMAIN landmarks = {LANDMARK_NAMES[i] : i \in 1..Len(LANDMARK_NAMES)}
    /\ landmarks["left_ankle"].visibility = R(2, 10)
    /\ landmarks["left_wrist"].visibility = R(3, 10)
    /\ ~HasAngle("left_knee")
    /\ HasAngle("left_hip")
    /\ HasAngle("left_shoulder")

\* C10: when the vertex coincides with one of the two other points of an
\* angle whose landmarks are all visible, _calculate_angle yields no value
\* and the returned FrameAngles has no entry for that angle.
C10_UndefinedAngleOmitted ==
    Calculated =>
        \A a \in ConfiguredAngles(pose_name) :
            (AllVisible(a) /\ ZeroLengthVector(a)) =>
                /\ AngleOf(landmarks, a) = NoAngle
                /\ a \notin DOMAIN angles.value

\* the shoulder and the elbow angle of each side
SidePairs == {<<"left_shoulder", "left_elbow">>, <<"right_shoulder", "right_elbow">>}

\* Python's == on two stored angle values: nan equals nothing, itself
\* included
FloatEqual(u, w) == u.kind = "angle" /\ w.kind = "angle" /\ u = w

\* C30: for warrior-2, which tracks the shoulder and the elbow angle of a
\* side, calculate_angles derives both from the same landmark triple: in
\* every frame the two are both present with equal values or both absent.
C30_ShoulderElbowSameAngle ==
    (Calculated /\ pose_name = "warrior-2") =>
        \A pair \in SidePairs :
            \/ /\ pair[1] \in DOMAIN angles.value
               /\ pair[2] \in DOMAIN angles.value
               /\ FloatEqual(angles.value[pair[1]], angles.value[pair[2]])
            \/ /\ pair[1] \notin DOMAIN angles.value
               /\ pair[2] \notin DOMAIN angles.value

\* what holds: the two blocks read the same triple, so the two entries are
\* both stored or both not, and when the angle is defined they are the same
\* number of degrees
ShoulderElbowSameEntry ==
    (Calculated /\ pose_name = "warrior-2") =>
        \A pair \in SidePairs :
            /\ JointLandmarks[pair[1]] = JointLandmarks[pair[2]]
            /\ pair[1] \in DOMAIN angles.value <=> pair[2] \in DOMAIN angles.value
            /\ (pair[1] \in DOMAIN angles.value /\ ~ZeroLengthVector(pair[1])) =>
                  FloatEqual(angles.value[pair[1]], angles.value[pair[2]])

\* the left elbow on the left shoulder: both entries are stored and both
\* are nan
ShoulderElbowBothNaN ==
    /\ Calculated
    /\ pose_name = "warrior-2"
    /\ "left_shoulder" \in DOMAIN angles.value
    /\ "left_elbow" \in DOMAIN angles.value
    /\ angles.value["left_shoulder"] = NaN
    /\ angles.value["left_elbow"] = NaN
    /\ HasAngle("right_shoulder")
    /\ FloatEqual(angles.value["right_shoulder"], angles.value["right_elbow"])

(***************************************************************************)
(* The two Lambda handlers.  Each invocation (run) is a sequential         *)
(* process; runs interleave and share the S3 bucket.  A golden-standard    *)
(* document is identified by the training run that built it: its 'angles'  *)
(* table and its 'angle_sequences' carry the id of that run.               *)
(***************************************************************************)
RunIds == {"t1", "t2", "e1"}

\* which handler a run executes
RunKind(r) == IF r \in {"t1", "t2"} THEN "training" ELSE "testing"

\* the pose name parsed from the S3 key of the request (key_parts[0]); the
\* second is not a key of POSE_ANGLE_DEFINITIONS
HandlerPoses == {"warrior-2", "crow-pose"}

\* len(frames) after extract_frames
ExtractedCounts == {4, 6, 10}

\* len(angle_data) after the frame loop
DetectedCounts == {2, 4, 6, 10}

\* "if len(frames) < 10" (training) and "if len(frames) < 5" (testing)
MinFramesTraining == 10
MinFramesTesting == 5
\* mutant of MinFrames: the number of extracted frames is not checked
MinFramesNone(kind) == 0

MinFrames(kind) == IF kind = "training" THEN MinFramesTraining ELSE MinFramesTesting

\* "if len(angle_data) < 5" (training) and "if len(angle_data) < 3" (testing)
MinPoseFramesTraining == 5
MinPoseFramesTesting == 3
MinPoseFrames(kind) ==
    IF kind = "training" THEN MinPoseFramesTraining ELSE MinPoseFramesTesting

\* the document create_golden_standard builds in run r
GoldenOf(r) == [kind |-> "doc", angles |-> r, angle_sequences |-> r]

\* locals of a run at the entry of lambda_handler
StartOf(r, pose) ==
    [pc |-> IF RunKind(r) = "training" THEN "download" ELSE "load",
     pose |-> pose,
     golden |-> NotYet,
     frames |-> 0,
     uploaded |-> 0,
     analysed |-> 0,
     angle_count |-> 0,
     golden_writes |-> 0,
     scored |-> NotYet,
     validation_result |-> "none",
     downloaded |-> FALSE,
     local_video |-> FALSE,
     cleanup_calls |-> 0,
     statusCode |-> 0]

\* the run returns with the status code
Return(r, code) == [runs[r] EXCEPT !.pc = "done", !.statusCode = code]

\* video_processor.cleanup_temp_files(temp_files): the downloaded file is
\* removed from /tmp
cleanup_temp_files(run) == [run EXCEPT !.local_video = FALSE, !.cleanup_calls = @ + 1]

\* "except Exception": error report, cleanup, status 500
Raise(r) == cleanup_temp_files(Return(r, 500))

InitHandlers ==
    /\ pose_name = "warrior-2"
    /\ EvalIdle
    /\ AnglesIdle
    /\ DtwIdle
    /\ FeedbackIdle
    /\ ValidationIdle
    /\ s3_golden = [p \in HandlerPoses |-> NotYet]
    /\ \E poses \in [RunIds -> HandlerPoses] :
          runs = [r \in RunIds |-> StartOf(r, poses[r])]

\* testing handler, lines 75-100: one get_object; 404 when the key is absent
LoadGoldenStandard(r) ==
    /\ runs[r].pc = "load"
    /\ IF s3_golden[runs[r].pose] = NotYet
       THEN runs' = [runs EXCEPT ![r] = Return(r, 404)]
       ELSE runs' = [runs EXCEPT ![r] = [@ EXCEPT !.pc = "download",
                                                  !.golden = s3_golden[runs[r].pose]]]
    /\ UNCHANGED <<pose_name, evalVars, angleVars, dtwVars, feedbackVars, validationVars, s3_golden>>

\* s3_handler.download_video: raises when the object cannot be fetched
DownloadVideo(r) ==
    /\ runs[r].pc = "download"
    /\ \E ok \in BOOLEAN :
          runs' = [runs EXCEPT ![r] = IF ok THEN [@ EXCEPT !.pc = "validate",
                                                           !.downloaded = TRUE,
                                                           !.local_video = TRUE]
                                      ELSE Raise(r)]
    /\ UNCHANGED <<pose_name, evalVars, angleVars, dtwVars, feedbackVars, validationVars, s3_golden>>

\* validate_video_with_bedrock and the "if not validation_result['is_valid']"
\* branch that returns 400; a Bedrock failure raises
ValidateVideo(r) ==
    /\ runs[r].pc = "validate"
    /\ \E outcome \in {"valid", "invalid", "error"} :
          runs' = [runs EXCEPT ![r] =
                      CASE outcome = "valid" ->
                               [@ EXCEPT !.pc = "extract", !.validation_result = "valid"]
                        [] outcome = "invalid" ->
                               [Return(r, 400) EXCEPT !.validation_result = "invalid"]
                        [] OTHER -> Raise(r)]
    /\ UNCHANGED <<pose_name, evalVars, angleVars, dtwVars, feedbackVars, validationVars, s3_golden>>

\* extract_frames and the minimum number of frames
ExtractFrames(r) ==
    /\ runs[r].pc = "extract"
    /\ \E n \in ExtractedCounts :
          runs' = [runs EXCEPT ![r] =
                      IF n < MinFrames(RunKind(r))
                      THEN [Raise(r) EXCEPT !.frames = n]
                      ELSE [@ EXCEPT !.pc = "upload", !.frames = n]]
    /\ UNCHANGED <<pose_name, evalVars, angleVars, dtwVars, feedbackVars, validationVars, s3_golden>>

\* s3_handler.upload_frames(frames, frame_prefix)
UploadFrames(r) ==
    /\ runs[r].pc = "upload"
    /\ runs' = [runs EXCEPT ![r] = [@ EXCEPT !.pc = "construct", !.uploaded = runs[r].frames]]
    /\ UNCHANGED <<pose_name, evalVars, angleVars, dtwVars, feedbackVars, validationVars, s3_golden>>

\* YogaPoseAnalyzer(pose_name, visibility_threshold=0.3): __init__ raises
\* ValueError for a pose that is not in POSE_ANGLE_DEFINITIONS
ConstructAnalyzer(r) ==
    /\ runs[r].pc = "construct"
    /\ runs' = [runs EXCEPT ![r] =
                   IF runs[r].pose \notin DOMAIN POSE_ANGLE_DEFINITIONS
                   THEN Raise(r)
                   ELSE [@ EXCEPT !.pc = "analyse"]]
    /\ UNCHANGED <<pose_name, evalVars, angleVars, dtwVars, feedbackVars, validationVars, s3_golden>>

\* the frame loop, the detection-rate check (50%) and the minimum number of
\* frames with pose data
AnalyseFrames(r) ==
    /\ runs[r].pc = "analyse"
    /\ \E d \in DetectedCounts :
          /\ d <= runs[r].frames
          /\ runs' = [runs EXCEPT ![r] =
                         IF 2 * d < runs[r].frames \/ d < MinPoseFrames(RunKind(r))
                         THEN [Raise(r) EXCEPT !.analysed = runs[r].frames,
                                               !.angle_count = d]
                         ELSE [@ EXCEPT !.pc = IF RunKind(r) = "training"
                                               THEN "save" ELSE "evaluate",
                                        !.analysed = runs[r].frames,
                                        !.angle_count = d]]
    /\ UNCHANGED <<pose_name, evalVars, angleVars, dtwVars, feedbackVars, validationVars, s3_golden>>

\* training handler, lines 229-278: create_golden_standard, then
\* save_golden_standard: one put_object of the whole document, which
\* raises when S3 refuses it; then cleanup and the 200 response
SaveGoldenStandard(r) ==
    /\ runs[r].pc = "save"
    /\ RunKind(r) = "training"
    /\ \E ok \in BOOLEAN :
          IF ok
          THEN /\ s3_golden' = [s3_golden EXCEPT ![runs[r].pose] = GoldenOf(r)]
               /\ runs' = [runs EXCEPT ![r] =
                              [cleanup_temp_files(Return(r, 200)) EXCEPT
                                  !.golden_writes = @ + 1]]
          ELSE /\ s3_golden' = s3_golden
               /\ runs' = [runs EXCEPT ![r] = Raise(r)]
    /\ UNCHANGED <<pose_name, evalVars, angleVars, dtwVars, feedbackVars, validationVars>>

\* mutant of GoldenForScoring: the sequences are read from S3 again
GoldenForScoringReloaded(run, s3) ==
    [run.golden EXCEPT !.angle_sequences = s3[run.pose].angle_sequences]

\* the golden_standard argument of evaluate_angles, line 270: the local
\* loaded at line 78
GoldenForScoring(run, s3) == run.golden

\* testing handler, lines 268-278: evaluate_angles and generate_feedback
EvaluateTestVideo(r) ==
    /\ runs[r].pc = "evaluate"
    /\ runs' = [runs EXCEPT ![r] = [@ EXCEPT !.pc = "save",
                                             !.scored = GoldenForScoring(runs[r], s3_golden)]]
    /\ UNCHANGED <<pose_name, evalVars, angleVars, dtwVars, feedbackVars, validationVars, s3_golden>>

\* testing handler, lines 351-381: save_evaluation, cleanup and the 200
\* response
SaveEvaluation(r) ==
    /\ runs[r].pc = "save"
    /\ RunKind(r) = "testing"
    /\ runs' = [runs EXCEPT ![r] = cleanup_temp_files(Return(r, 200))]
    /\ UNCHANGED <<pose_name, evalVars, angleVars, dtwVars, feedbackVars, validationVars, s3_golden>>

NextHandlers ==
    \E r \in RunIds :
        \/ LoadGoldenStandard(r)
        \/ DownloadVideo(r)
        \/ ValidateVideo(r)
        \/ ExtractFrames(r)
        \/ UploadFrames(r)
        \/ ConstructAnalyzer(r)
        \/ AnalyseFrames(r)
        \/ SaveGoldenStandard(r)
        \/ EvaluateTestVideo(r)
        \/ SaveEvaluation(r)

SpecHandlers == InitHandlers /\ [][NextHandlers]_vars

(***************************************************************************)
(* YogaPoseAnalyzer.generate_feedback.  The evaluation dict it is handed   *)
(* keeps its angle_evaluations in insertion order: here a sequence of      *)
(* [angle_name, status, deviation] items with distinct names.  A feedback  *)
(* message is the template it was formatted from together with the         *)
(* deviation as "{deviation:.1f}" prints it, in tenths of a degree.        *)
(***************************************************************************)
MaxFeedbackAngles == 3

\* the 'recommendation' strings of FEEDBACK_TEMPLATES (left and right share one)
FEEDBACK_TEMPLATES ==
    [left_shoulder |-> "Focus on shoulder alignment and arm extension.",
     right_shoulder |-> "Focus on shoulder alignment and arm extension.",
     left_hip |-> "Practice hip opening exercises and focus on proper hip alignment.",
     right_hip |-> "Practice hip opening exercises and focus on proper hip alignment.",
     left_knee |-> "Keep your knee aligned over your ankle and avoid hyperextension.",
     right_knee |-> "Keep your knee aligned over your ankle and avoid hyperextension.",
     left_elbow |->
         "Focus on maintaining straight or properly bent arms as required by the pose.",
     right_elbow |->
         "Focus on maintaining straight or properly bent arms as required by the pose.",
     spine_alignment |->
         "Engage your core and focus on maintaining a neutral spine throughout the pose."]

\* lines 806-809: the two general recommendations
GeneralRecommendations ==
    <<"Consider practicing with a yoga instructor for personalized guidance.",
      "Watch tutorial videos to understand proper form and alignment.">>

\* "{deviation:.1f}".format(deviation=x) for x >= 0: x rounded to tenths, a
\* tie going to the even tenth
FormatTenths(x) ==
    LET n == 10 * x[1]
        d == x[2]
        q == n \div d
        twice == 2 * (n % d)
    IN  IF twice < d THEN q
        ELSE IF twice > d THEN q + 1
        ELSE IF q % 2 = 0 THEN q ELSE q + 1

\* mutant of Grade: a boundary value belongs to the lower grade
GradeExclusive(overall_score) ==
    IF RGt(overall_score, RInt(90)) THEN "A"
    ELSE IF RGt(overall_score, RInt(80)) THEN "B"
    ELSE IF RGt(overall_score, RInt(70)) THEN "C"
    ELSE IF RGt(overall_score, RInt(60)) THEN "D"
    ELSE "F"

\* lines 752-762
Grade(overall_score) ==
    IF RGe(overall_score, RInt(90)) THEN "A"
    ELSE IF RGe(overall_score, RInt(80)) THEN "B"
    ELSE IF RGe(overall_score, RInt(70)) THEN "C"
    ELSE IF RGe(overall_score, RInt(60)) THEN "D"
    ELSE "F"

\* mutant of PassFail: a score equal to the threshold fails
PassFailStrict(overall_score, threshold) ==
    IF RGt(overall_score, RInt(threshold)) THEN "PASS" ELSE "FAIL"

\* line 765
PassFail(overall_score, threshold) ==
    IF RGe(overall_score, RInt(threshold)) THEN "PASS" ELSE "FAIL"

\* lines 783-784 and 786: the message of one angle
FeedbackMessage(item) ==
    [template |-> IF item.status \in {"EXCELLENT", "GOOD"} THEN "positive" ELSE "negative",
     angle |-> item.angle_name,
     tenths |-> FormatTenths(RAbs(item.deviation))]

\* mutant of AddRecommendation: the string is appended whether or not it is
\* already in the list
AddRecommendationAlways(recommendations, item) ==
    IF item.status \in {"EXCELLENT", "GOOD"} THEN recommendations
    ELSE Append(recommendations, FEEDBACK_TEMPLATES[item.angle_name])

\* lines 783-789: what one iteration of the loop does to recommendations
AddRecommendation(recommendations, item) ==
    IF item.status \in {"EXCELLENT", "GOOD"} THEN recommendations
    ELSE IF \E k \in 1..Len(recommendations) :
                recommendations[k] = FEEDBACK_TEMPLATES[item.angle_name]
         THEN recommendations
         ELSE Append(recommendations, FEEDBACK_TEMPLATES[item.angle_name])

\* the loop of lines 771-794 over angle_evaluations.items(): recommendations
RECURSIVE LoopRecommendations(_, _)
LoopRecommendations(items, recommendations) ==
    IF items = <<>> THEN recommendations
    ELSE LoopRecommendations(Tail(items), AddRecommendation(recommendations, Head(items)))

\* lines 791-794: detailed_feedback, {**angle_eval, 'feedback': feedback_msg}
DetailedFeedback(items) ==
    [i \in 1..Len(items) |->
        [angle_name |-> items[i].angle_name,
         status |-> items[i].status,
         deviation |-> items[i].deviation,
         feedback |-> FeedbackMessage(items[i])]]

\* lines 797-804: which of the four summary sentences is chosen
Summary(overall_score) ==
    IF RGe(overall_score, RInt(85)) THEN "Excellent form!"
    ELSE IF RGe(overall_score, RInt(70)) THEN "Good overall form"
    ELSE IF RGe(overall_score, RInt(50)) THEN "needs some improvement"
    ELSE "requires significant work"

\* mutant of EvaluationAfterFeedback: the message is stored in the entry of
\* the input, angle_eval['feedback'] = feedback_msg
EvaluationAfterFeedbackInPlace(ev) ==
    [ev EXCEPT !.angle_evaluations = DetailedFeedback(ev.angle_evaluations)]

\* the evaluation dict the caller holds once generate_feedback has returned:
\* the function reads evaluation['overall_score'], ['angle_evaluations'] and
\* ['total_frames'] and builds detailed_feedback from new dicts
\* ({**angle_eval, ...}, lines 791-794); it assigns to no part of its argument
EvaluationAfterFeedback(ev) == ev

generate_feedback(pose, ev, threshold) ==
    LET overall_score == ev.overall_score
        angle_evaluations == ev.angle_evaluations
        looped == LoopRecommendations(angle_evaluations, <<>>)
        recommendations ==
            IF RLt(overall_score, RInt(threshold))
            THEN looped \o GeneralRecommendations
            ELSE looped
    IN  [kind |-> "ok",
         pose_name |-> pose,
         overall_score |-> overall_score,
         grade |-> Grade(overall_score),
         pass_fail |-> PassFail(overall_score, threshold),
         total_frames |-> ev.total_frames,
         angle_evaluations |-> DetailedFeedback(angle_evaluations),
         summary_feedback |-> Summary(overall_score),
         recommendations |-> recommendations]

\* overall scores handed to generate_feedback: the grade boundaries and a
\* tenth below each
ScoreInputs ==
    {RInt(0), R(599, 10), RInt(60), R(699, 10), RInt(70), R(799, 10), RInt(80),
     R(899, 10), RInt(90), RInt(100)}

\* angle names of the per-angle results
FeedbackAngles == {"left_knee", "right_knee", "left_elbow", "spine_alignment"}

\* status and deviation of a per-angle result
AngleResults ==
    {[status |-> "EXCELLENT", deviation |-> R(13, 4)],
     [status |-> "GOOD", deviation |-> RInt(-12)],
     [status |-> "NEEDS_IMPROVEMENT", deviation |-> RInt(18)],
     [status |-> "POOR", deviation |-> R(-61, 2)]}

\* the testing handler passes pass_threshold=70.0, the default
PassThresholds == {70, 80}

InitFeedback ==
    /\ pose_name = "warrior-2"
    /\ EvalIdle
    /\ AnglesIdle
    /\ DtwIdle
    /\ HandlersIdle
    /\ ValidationIdle
    /\ \E sc \in ScoreInputs :
          fb_evaluation = [kind |-> "ok", overall_score |-> sc,
                           angle_evaluations |-> <<>>, total_frames |-> 5]
    /\ pass_threshold = 0
    /\ feedback = NotYet

\* evaluate_angles, line 591: angle_evaluations[angle_name] = {...}, the next
\* key of the dict
AddAngleEvaluation ==
    /\ feedback = NotYet
    /\ Len(fb_evaluation.angle_evaluations) < MaxFeedbackAngles
    /\ \E a \in FeedbackAngles, res \in AngleResults :
          /\ \A i \in 1..Len(fb_evaluation.angle_evaluations) :
                fb_evaluation.angle_evaluations[i].angle_name # a
          /\ fb_evaluation' =
                [fb_evaluation EXCEPT !.angle_evaluations =
                    Append(@, [angle_name |-> a, status |-> res.status,
                               deviation |-> res.deviation])]
    /\ UNCHANGED <<pose_name, evalVars, angleVars, dtwVars, pass_threshold, feedback,
                   handlerVars, validationVars>>

GenerateFeedback ==
    /\ feedback = NotYet
    /\ \E threshold \in PassThresholds :
          /\ pass_threshold' = threshold
          /\ feedback' = generate_feedback(pose_name, fb_evaluation, threshold)
    /\ fb_evaluation' = EvaluationAfterFeedback(fb_evaluation)
    /\ UNCHANGED <<pose_name, evalVars, angleVars, dtwVars, handlerVars, validationVars>>

NextFeedback ==
    \/ AddAngleEvaluation
    \/ GenerateFeedback

SpecFeedback == InitFeedback /\ [][NextFeedback]_vars

(***************************************************************************)
(* Properties of generate_feedback, checked under SpecFeedback.            *)
(***************************************************************************)
FeedbackGenerated == feedback.kind = "ok"

\* the per-angle results handed to generate_feedback
Items == fb_evaluation.angle_evaluations

BelowGood(i) == Items[i].status \notin {"EXCELLENT", "GOOD"}

\* the recommendation string the template table associates with an angle
RecommendationOf(i) == FEEDBACK_TEMPLATES[Items[i].angle_name]

\* the position of the first angle below GOOD whose recommendation is str
FirstInsertion(str) ==
    CHOOSE i \in 1..Len(Items) :
        /\ BelowGood(i)
        /\ RecommendationOf(i) = str
        /\ \A j \in 1..(i - 1) : ~(BelowGood(j) /\ RecommendationOf(j) = str)

\* recs holds the recommendation of each angle below GOOD, each string once,
\* in the order in which the angles first bring them in
AccumulatedFromAngles(recs) ==
    /\ \A i, j \in 1..Len(recs) : i # j => recs[i] # recs[j]
    /\ {recs[k] : k \in 1..Len(recs)} =
          {RecommendationOf(i) : i \in {n \in 1..Len(Items) : BelowGood(n)}}
    /\ \A i, j \in 1..Len(recs) :
          i < j => FirstInsertion(recs[i]) < FirstInsertion(recs[j])

\* every angle gets the positive template if its status is EXCELLENT or GOOD
\* and the negative template otherwise
TemplateByStatus ==
    /\ Len(feedback.angle_evaluations) = Len(Items)
    /\ \A i \in 1..Len(Items) :
          /\ feedback.angle_evaluations[i].angle_name = Items[i].angle_name
          /\ feedback.angle_evaluations[i].feedback.angle = Items[i].angle_name
          /\ feedback.angle_evaluations[i].feedback.template =
                IF Items[i].status = "EXCELLENT" \/ Items[i].status = "GOOD"
                THEN "positive" ELSE "negative"

\* C19 as stated: each angle gets the positive template text if its status
\* is EXCELLENT or GOOD and the negative one otherwise, and the returned
\* recommendations are the recommendation strings of the angles below GOOD,
\* each once, in order of first insertion.
C19_RecommendationsFromAngles ==
    FeedbackGenerated =>
        /\ TemplateByStatus
        /\ AccumulatedFromAngles(feedback.recommendations)

\* the number of general recommendations the call appends
GeneralCount ==
    IF RLt(fb_evaluation.overall_score, RInt(pass_threshold))
    THEN Len(GeneralRecommendations) ELSE 0

\* C19 amended: the template is chosen by status as stated, and the returned
\* recommendations are the recommendation strings of the angles below GOOD,
\* each once, in order of first insertion, followed by the two general
\* recommendations when overall_score is below pass_threshold; no string
\* appears twice.
C19_RecommendationsAmended ==
    FeedbackGenerated =>
        LET recs == feedback.recommendations
            n == Len(recs) - GeneralCount
        IN  /\ TemplateByStatus
            /\ n >= 0
            /\ AccumulatedFromAngles(SubSeq(recs, 1, n))
            /\ SubSeq(recs, n + 1, Len(recs)) =
                  SubSeq(GeneralRecommendations, 1, GeneralCount)
            /\ \A i, j \in 1..Len(recs) : i # j => recs[i] # recs[j]

\* three angles below GOOD, two of which share a recommendation, with an
\* angle of another recommendation first, and a score below the threshold:
\* two angle recommendations and the two general ones
C19_Witness ==
    /\ FeedbackGenerated
    /\ Len(Items) = 3
    /\ \A i \in 1..3 : BelowGood(i)
    /\ RecommendationOf(1) # RecommendationOf(2)
    /\ RecommendationOf(2) = RecommendationOf(3)
    /\ feedback.recommendations =
          <<RecommendationOf(1), RecommendationOf(2)>> \o GeneralRecommendations

\* C20: grade is A from 90, B from 80, C from 70, D from 60 and F below, a
\* boundary value belonging to the higher grade.
C20_GradeThresholds ==
    FeedbackGenerated =>
        LET sc == fb_evaluation.overall_score
            below(n) == sc[1] < n * sc[2]
        IN  /\ feedback.grade = "A" <=> ~below(90)
            /\ feedback.grade = "B" <=> (below(90) /\ ~below(80))
            /\ feedback.grade = "C" <=> (below(80) /\ ~below(70))
            /\ feedback.grade = "D" <=> (below(70) /\ ~below(60))
            /\ feedback.grade = "F" <=> below(60)

\* a score exactly on a boundary gets the higher grade
C20_Witness ==
    /\ FeedbackGenerated
    /\ fb_evaluation.overall_score = RInt(80)
    /\ feedback.grade = "B"

\* C21: pass_fail is PASS exactly when overall_score >= pass_threshold,
\* whatever the grade and the statuses of the angles; a score equal to the
\* threshold passes.
C21_PassExactlyAtThreshold ==
    FeedbackGenerated =>
        /\ feedback.pass_fail \in {"PASS", "FAIL"}
        /\ feedback.pass_fail = "PASS" <=>
              fb_evaluation.overall_score[1] >=
                  pass_threshold * fb_evaluation.overall_score[2]

\* a score equal to the threshold passes although an angle is POOR
C21_Witness ==
    /\ FeedbackGenerated
    /\ fb_evaluation.overall_score = RInt(pass_threshold)
    /\ \E i \in 1..Len(Items) : Items[i].status = "POOR"
    /\ feedback.pass_fail = "PASS"

\* a score of grade C fails against the threshold 80
GradeDoesNotDecidePass ==
    /\ FeedbackGenerated
    /\ feedback.grade = "C"
    /\ feedback.pass_fail = "FAIL"

Unsupported(r) == runs[r].pose \notin DOMAIN POSE_ANGLE_DEFINITIONS

\* C17: a run whose pose is not in the pose configuration table fails at the
\* construction of the analyzer before any frame processing: for such a run
\* no frame is extracted, uploaded or analysed.
C17_UnsupportedPoseFailsFast ==
    \A r \in RunIds :
        Unsupported(r) =>
            /\ runs[r].pc \notin {"analyse", "evaluate", "save"}
            /\ runs[r].frames = 0
            /\ runs[r].uploaded = 0
            /\ runs[r].analysed = 0

\* What the handlers do guarantee for an unsupported pose: the constructor
\* stops the run before a frame is analysed, no golden standard is written
\* and the run never answers 200.
UnsupportedPoseStopsAtConstruction ==
    \A r \in RunIds :
        Unsupported(r) =>
            /\ runs[r].pc \notin {"analyse", "evaluate", "save"}
            /\ runs[r].analysed = 0
            /\ runs[r].golden_writes = 0
            /\ runs[r].statusCode # 200
            /\ s3_golden[runs[r].pose] = NotYet

\* a training run for an unsupported pose has been stopped by the constructor
\* with its frames already extracted and uploaded
UnsupportedPoseStoppedLate ==
    \E r \in RunIds :
        /\ Unsupported(r)
        /\ runs[r].statusCode = 500
        /\ runs[r].uploaded >= MinFramesTraining

\* C18: in every interleaving of training and evaluation runs the evaluation
\* handler never writes the golden-standard document, a training run writes
\* it at most once, and an evaluation scores against one complete version:
\* the document it loaded, whose statistics and sequences come from the same
\* training run.
C18_GoldenStandardReadOnly ==
    /\ \A r \in RunIds :
          /\ RunKind(r) = "testing" => runs[r].golden_writes = 0
          /\ runs[r].golden_writes <= 1
          /\ runs[r].scored # NotYet =>
                /\ runs[r].scored = runs[r].golden
                /\ runs[r].scored.angles = runs[r].scored.angle_sequences
                /\ RunKind(runs[r].scored.angles) = "training"
                /\ runs[runs[r].scored.angles].golden_writes = 1
    /\ \A p \in HandlerPoses :
          s3_golden[p] # NotYet =>
              /\ s3_golden[p] = GoldenOf(s3_golden[p].angles)
              /\ RunKind(s3_golden[p].angles) = "training"
              /\ runs[s3_golden[p].angles].golden_writes = 1
              /\ runs[s3_golden[p].angles].pose = p

\* an evaluation has scored against the version it loaded while a later
\* training run has replaced the document in S3
C18_Witness ==
    \E r \in RunIds :
        /\ RunKind(r) = "testing"
        /\ runs[r].scored # NotYet
        /\ s3_golden[runs[r].pose] # NotYet
        /\ s3_golden[runs[r].pose] # runs[r].scored

\* the run r of the training handler has passed every check that stands
\* before save_golden_standard
TrainingChecksPassed(run) ==
    /\ run.validation_result = "valid"
    /\ run.frames >= 10
    /\ 2 * run.angle_count >= run.frames
    /\ run.angle_count >= 5

\* C27: a training request that does not succeed never overwrites the
\* stored golden standard: the object of a pose changes only in the step of
\* a training run for that pose that has passed content validation, has
\* extracted at least 10 frames, has a detection rate of at least 50% and
\* at least 5 frames with angles, and that run answers 200; a run that
\* answers 400 or 500 has written nothing.
C27_FailedTrainingKeepsGolden ==
    [][/\ \A p \in HandlerPoses :
             s3_golden'[p] # s3_golden[p] =>
                 \E r \in RunIds :
                     /\ RunKind(r) = "training"
                     /\ runs[r].pose = p
                     /\ runs[r].pc = "save"
                     /\ TrainingChecksPassed(runs[r])
                     /\ runs'[r].pc = "done"
                     /\ runs'[r].statusCode = 200
       /\ \A r \in RunIds :
             /\ runs'[r].golden_writes # runs[r].golden_writes =>
                    /\ TrainingChecksPassed(runs[r])
                    /\ runs'[r].statusCode = 200
             /\ (runs[r].pc # "done" /\ runs'[r].pc = "done"
                    /\ runs'[r].statusCode \in {400, 500}) =>
                    /\ s3_golden' = s3_golden
                    /\ runs'[r].golden_writes = 0]_vars

\* a golden standard saved by t1 is in place while t2, for the same pose,
\* has failed with 500 after 10 frames were extracted, or with 400
C27_Witness ==
    /\ runs["t1"].statusCode = 200
    /\ runs["t2"].pose = runs["t1"].pose
    /\ s3_golden[runs["t1"].pose] = GoldenOf("t1")
    /\ runs["t2"].pc = "done"
    /\ \/ runs["t2"].statusCode = 500 /\ runs["t2"].frames >= 10
       \/ runs["t2"].statusCode = 400

\* C28: on every exit path of the two handlers taken after the video was
\* downloaded (success, validation rejection, exception)
\* cleanup_temp_files has been called on the downloaded file when the
\* handler returns.
C28_CleanupOnEveryExit ==
    \A r \in RunIds :
        (runs[r].pc = "done" /\ runs[r].downloaded) =>
            /\ runs[r].cleanup_calls >= 1
            /\ ~runs[r].local_video

\* what holds: the success and the exception paths clean up
CleanupOnSuccessAndException ==
    \A r \in RunIds :
        (runs[r].pc = "done" /\ runs[r].statusCode \in {200, 500}) =>
            /\ runs[r].cleanup_calls = 1
            /\ ~runs[r].local_video

\* a run rejected by the validation has returned 400 and left its video
\* in /tmp
RejectedVideoLeftBehind ==
    \E r \in RunIds :
        /\ runs[r].pc = "done"
        /\ runs[r].statusCode = 400
        /\ runs[r].local_video
        /\ runs[r].cleanup_calls = 0

(***************************************************************************)
(* video_processor.py, _invoke_bedrock_with_retry (lines 35-109): the      *)
(* while loop around bedrock_client.invoke_model.  The delays are whole    *)
(* seconds here.                                                           *)
(***************************************************************************)
\* largest max_retries argument
MaxRetries == 3

BaseDelays == {1, 2}
MaxDelays == {3, 5}

\* what one invoke_model call does: it returns a response, raises a
\* ClientError with code ThrottlingException, raises a ClientError with
\* another code, or raises another exception
BedrockOutcomes == {"ok", "ThrottlingException", "ClientError", "Exception"}

RECURSIVE Pow2(_)
Pow2(k) == IF k = 0 THEN 1 ELSE 2 * Pow2(k - 1)

\* mutant of RetryDelay: the delay is not capped at max_delay
RetryDelayUncapped(base_delay, max_delay, retry_count) == base_delay * Pow2(retry_count)

\* line 68: delay = min(base_delay * (2 ** retry_count), max_delay)
RetryDelay(base_delay, max_delay, retry_count) ==
    IF base_delay * Pow2(retry_count) < max_delay
    THEN base_delay * Pow2(retry_count)
    ELSE max_delay

\* the state at entry: retry_count = 0 (line 61); invocations, waits and
\* outcomes record the invoke_model calls made, the time.sleep calls made
\* and what each invoke_model call did
StartRetry(max_retries, base_delay, max_delay) ==
    [pc |-> "call", max_retries |-> max_retries, base_delay |-> base_delay,
     max_delay |-> max_delay, retry_count |-> 0, invocations |-> 0,
     waits |-> <<>>, outcomes |-> <<>>]

InitRetry ==
    /\ pose_name = "warrior-2"
    /\ EvalIdle
    /\ AnglesIdle
    /\ DtwIdle
    /\ FeedbackIdle
    /\ HandlersIdle
    /\ validation = NotYet
    /\ \E max_retries \in 0..MaxRetries, base_delay \in BaseDelays, max_delay \in MaxDelays :
          bedrock = StartRetry(max_retries, base_delay, max_delay)

\* one pass of "while retry_count <= max_retries" (lines 63-106): the sleep
\* before a retry, the invoke_model call, and the return, the raise or the
\* increment of retry_count that follows it.  With max_retries >= 0 the
\* loop is left only by return or raise, line 109 is not reached.
InvokeModel ==
    /\ bedrock # NotYet
    /\ bedrock.pc = "call"
    /\ bedrock.retry_count <= bedrock.max_retries
    /\ \E outcome \in BedrockOutcomes :
          LET slept == IF bedrock.retry_count > 0
                       THEN Append(bedrock.waits,
                                   RetryDelay(bedrock.base_delay, bedrock.max_delay,
                                              bedrock.retry_count))
                       ELSE bedrock.waits
              called == [bedrock EXCEPT !.waits = slept,
                                        !.invocations = bedrock.invocations + 1,
                                        !.outcomes = Append(bedrock.outcomes, outcome)]
          IN  bedrock' =
                  IF outcome = "ok" THEN [called EXCEPT !.pc = "returned"]
                  ELSE IF outcome = "ThrottlingException"
                  THEN [called EXCEPT !.retry_count = bedrock.retry_count + 1,
                                      !.pc = IF bedrock.retry_count + 1 <= bedrock.max_retries
                                             THEN "call" ELSE "raised"]
                  ELSE [called EXCEPT !.pc = "raised"]
    /\ UNCHANGED <<pose_name, evalVars, angleVars, dtwVars, feedbackVars, handlerVars,
                   validation>>

NextRetry == InvokeModel

SpecRetry == InitRetry /\ [][NextRetry]_vars

\* invoke_model and time.sleep come back: the pass of the loop that has
\* been entered runs to its end
LiveSpecRetry == SpecRetry /\ WF_vars(InvokeModel)

(***************************************************************************)
(* Properties of _invoke_bedrock_with_retry, checked under LiveSpecRetry.  *)
(***************************************************************************)
RetryFinished == bedrock.pc \in {"returned", "raised"}

LastOutcome == bedrock.outcomes[Len(bedrock.outcomes)]

\* what has been called, slept and decided so far agrees with the contract
RetryContract ==
    /\ bedrock.invocations <= bedrock.max_retries + 1
    /\ Len(bedrock.outcomes) = bedrock.invocations
    /\ \A i \in 1..(bedrock.invocations - 1) : bedrock.outcomes[i] = "ThrottlingException"
    /\ Len(bedrock.waits) = (IF bedrock.invocations = 0 THEN 0 ELSE bedrock.invocations - 1)
    /\ \A k \in 1..Len(bedrock.waits) :
          bedrock.waits[k] = (IF bedrock.base_delay * (2 ^ k) < bedrock.max_delay
                              THEN bedrock.base_delay * (2 ^ k)
                              ELSE bedrock.max_delay)
    /\ bedrock.pc = "returned" <=> (bedrock.invocations > 0 /\ LastOutcome = "ok")
    /\ bedrock.pc = "raised" <=>
          /\ bedrock.invocations > 0
          /\ \/ LastOutcome \in {"ClientError", "Exception"}
             \/ /\ LastOutcome = "ThrottlingException"
                /\ bedrock.invocations = bedrock.max_retries + 1

\* C25: _invoke_bedrock_with_retry terminates after at most max_retries + 1
\* invocations: it returns the first successful response, retries only
\* after a ThrottlingException, sleeps min(base_delay * 2^retry_count,
\* max_delay) before each retry, raises once max_retries retries were
\* throttled and raises at once on any other error.
C25_RetryTerminates ==
    /\ []RetryContract
    /\ <>RetryFinished

\* every call was throttled: the call with defaults 3, 2, 5 raised after
\* four invocations and the sleeps 4, 5, 5
C25_Witness ==
    /\ bedrock.pc = "raised"
    /\ bedrock.max_retries = 3
    /\ bedrock.base_delay = 2
    /\ bedrock.max_delay = 5
    /\ bedrock.invocations = 4
    /\ bedrock.waits = <<4, 5, 5>>
    /\ LastOutcome = "ThrottlingException"

(***************************************************************************)
(* video_processor.py, validate_video_with_bedrock (lines 253-694): the    *)
(* sampled frames are analysed one by one and the video is valid when      *)
(* enough frames are.                                                      *)
(***************************************************************************)
\* sample_frames: int = 5; _extract_evenly_distributed_frames returns at
\* most that many frames
sample_frames == 5

\* poses with an entry in pose_thresholds and one without
ValidatedPoses == {"warrior-2", "tree-pose", "crow-pose"}

\* what the analysis of one frame comes to: the answer makes the frame
\* valid, it does not, or the try block raised (lines 540-646)
FrameOutcomes == {"valid", "invalid", "error"}

\* pose_thresholds.get(expected_pose, pose_thresholds['default']), in percent
validation_threshold(expected_pose) ==
    IF expected_pose \in {"tree-pose", "downward-dog", "warrior-1", "warrior-2",
                          "triangle-pose"}
    THEN 40
    ELSE 60

\* line 669: max(2, int(total_count * validation_threshold))
min_frames_required(expected_pose, total_count) ==
    LET required == (total_count * validation_threshold(expected_pose)) \div 100
    IN  IF required > 2 THEN required ELSE 2

ValidCount(frame_results) ==
    Cardinality({i \in 1..Len(frame_results) : frame_results[i].is_valid})

StartValidation(expected_pose, frames) ==
    [pc |-> "frames", expected_pose |-> expected_pose, frames |-> frames,
     frame_results |-> <<>>, result |-> None]

InitValidation ==
    /\ pose_name = "warrior-2"
    /\ EvalIdle
    /\ AnglesIdle
    /\ DtwIdle
    /\ FeedbackIdle
    /\ HandlersIdle
    /\ bedrock = NotYet
    /\ \E expected_pose \in ValidatedPoses, frames \in 0..sample_frames :
          validation = StartValidation(expected_pose, frames)

\* lines 289-299: no frame could be extracted
NoFramesExtracted ==
    /\ validation # NotYet
    /\ validation.pc = "frames"
    /\ validation.frames = 0
    /\ validation' = [validation EXCEPT
                         !.pc = "done",
                         !.result = [is_valid |-> FALSE, frames_analyzed |-> 0]]
    /\ UNCHANGED <<pose_name, evalVars, angleVars, dtwVars, feedbackVars, handlerVars,
                   bedrock>>

\* one pass of "for idx, frame in enumerate(frames)" (lines 311-647): the
\* call of _invoke_bedrock_with_retry and the reading of the answer append
\* one entry; when the try block raises the entry has is_valid False
AnalyseFrame ==
    /\ validation # NotYet
    /\ validation.pc = "frames"
    /\ Len(validation.frame_results) < validation.frames
    /\ \E outcome \in FrameOutcomes :
          validation' = [validation EXCEPT
                            !.frame_results =
                                Append(validation.frame_results,
                                       [is_valid |-> (outcome = "valid"),
                                        error |-> (outcome = "error")])]
    /\ UNCHANGED <<pose_name, evalVars, angleVars, dtwVars, feedbackVars, handlerVars,
                   bedrock>>

\* lines 649-694: the count of valid frames against min_frames_required
DecideValidation ==
    /\ validation # NotYet
    /\ validation.pc = "frames"
    /\ validation.frames > 0
    /\ Len(validation.frame_results) = validation.frames
    /\ LET valid_count == ValidCount(validation.frame_results)
           total_count == Len(validation.frame_results)
       IN  validation' = [validation EXCEPT
                             !.pc = "done",
                             !.result =
                                 [is_valid |->
                                      valid_count >=
                                          min_frames_required(validation.expected_pose,
                                                              total_count),
                                  frames_analyzed |-> total_count]]
    /\ UNCHANGED <<pose_name, evalVars, angleVars, dtwVars, feedbackVars, handlerVars,
                   bedrock>>

NextValidation ==
    \/ NoFramesExtracted
    \/ AnalyseFrame
    \/ DecideValidation

SpecValidation == InitValidation /\ [][NextValidation]_vars

(***************************************************************************)
(* Properties of validate_video_with_bedrock, checked under                *)
(* SpecValidation.                                                         *)
(***************************************************************************)
Validated == validation.pc = "done"

\* C26: validate_video_with_bedrock applies a 60% threshold: with 5
\* analysed frames the video is reported valid only if at least 3 of the 5
\* frames are valid, a frame whose analysis raised counting as invalid.
C26_SixtyPercentThreshold ==
    (Validated /\ validation.result.frames_analyzed = 5 /\ validation.result.is_valid) =>
        ValidCount(validation.frame_results) >= 3

\* what holds of every pose: a valid video has at least 2 valid frames, a
\* frame whose analysis raised is not among them, and a pose outside the
\* threshold table needs 3 of 5
ValidationNeedsTwoFrames ==
    (Validated /\ validation.result.is_valid) =>
        /\ ValidCount(validation.frame_results) >= 2
        /\ \A i \in 1..Len(validation.frame_results) :
              validation.frame_results[i].error => ~validation.frame_results[i].is_valid
        /\ (validation.expected_pose = "crow-pose" /\ validation.frames = 5) =>
              ValidCount(validation.frame_results) >= 3

\* a warrior-2 video reported valid on 2 valid frames of 5
TwoOfFiveAccepted ==
    /\ Validated
    /\ validation.expected_pose = "warrior-2"
    /\ validation.result.frames_analyzed = 5
    /\ validation.result.is_valid
    /\ ValidCount(validation.frame_results) = 2

====
